---- MODULE Spec2Model ----
(***************************************************************************)
(* Model of the hermetic-mls delivery service: the gRPC handlers of        *)
(* src/src/service/mod.rs running against the PostgreSQL store of          *)
(* src/src/db/mod.rs.  Handlers are async and hold no lock across their    *)
(* store calls, so a handler with two store calls is two steps with the    *)
(* request held in `pending` in between.                                   *)
(***************************************************************************)
EXTENDS Integers, Sequences, FiniteSets, TLC

\* ---------------------------------------------------------------- bounds
MaxClients == 2
MaxKeyPackages == 3
MaxGroups == 2
MaxMemberships == 3
MaxMessages == 2
MaxPending == 2
MaxTime == 2
NumConsumers == 2
\* largest target epoch a StoreCommit request carries
MaxEpoch == 2
\* width of the request epoch (u64 in the code), scaled down
EpochBits == 3

\* ------------------------------------------------------------ identifiers
\* A request carries identifiers as text.  Malformed stands for any text
\* that Uuid::parse_str rejects; every positive number is a well-formed
\* UUID.  UnknownUuid is a well-formed UUID that no row of any table has.
Malformed == 0
UnknownUuid == 99
\* UUIDs of clients that callers name without ever registering them
ExternalClients == {91, 92}
UserUuids == {81}

\* Option<T>
None == <<>>
Some(x) == <<x>>
Unwrap(o) == o[1]

\* Vec<u8> payloads
EmptyBytes == <<>>
Payloads == {<<>>, <<9>>}
\* bytes produced by KeyPackage::builder().build(..).tls_serialize_detached()
GeneratedKeyPackages == {<<7>>}

VARIABLES
    clients,        \* table clients:      Seq(Client), row i has id i
    key_packages,   \* table key_packages: Seq(KeyPackage)
    groups,         \* table groups:       Seq(Group)
    memberships,    \* table memberships:  Seq(Membership)
    messages,       \* table messages:     Seq(Message)
    skip_validation,\* MLSServiceImpl.skip_validation
    now,            \* chrono::Utc::now()
    pending,        \* handlers suspended between two store calls
    consumers,      \* peers running "fetch a key package, then mark it used"
    last_call,      \* the last completed call and the Status it returned
    epoch_applied   \* history: ids of commit messages whose epoch update hit a row

store == <<clients, key_packages, groups, memberships, messages>>
vars == <<clients, key_packages, groups, memberships, messages,
          skip_validation, now, pending, consumers, last_call,
          epoch_applied>>

\* ------------------------------------------------------------- helpers
Ids(table) == DOMAIN table

\* Uuid::new_v4(): an identifier no row has yet
NewUuid(table) == Len(table) + 1

\* a parse that takes any string for a UUID
parse_uuid_lenient(s) == [ok |-> TRUE, value |-> s]

\* parse_uuid: Ok(uuid) for well-formed text, InvalidArgument otherwise
parse_uuid(s) ==
    IF s = Malformed THEN [ok |-> FALSE, status |-> "InvalidArgument"]
                     ELSE [ok |-> TRUE, value |-> s]

\* map_db_error
map_db_error(err) ==
    CASE err = "NotFound" -> "NotFound"
      [] err = "ConnectionError" -> "Unavailable"
      [] err = "QueryError" -> "Internal"
      [] err = "SerializationError" -> "Internal"

\* a completed call: the request, the Status returned, the response body, and
\* (history) what the call found in the store before it wrote
CallPre(op, arg, status, result, pre) ==
    [op |-> op, arg |-> arg, status |-> status, result |-> result, pre |-> pre]
Call(op, arg, status, result) == CallPre(op, arg, status, result, None)

Init ==
    /\ clients = <<>>
    /\ key_packages = <<>>
    /\ groups = <<>>
    /\ memberships = <<>>
    /\ messages = <<>>
    /\ skip_validation \in BOOLEAN
    /\ now = 1
    /\ pending = {}
    /\ consumers = [c \in 1..NumConsumers |-> [pc |-> "idle"]]
    /\ last_call = Call("none", None, "Ok", None)
    /\ epoch_applied = {}

\* the service as main.rs builds it: MLSServiceImpl::new, validation on
InitProduction == Init /\ skip_validation = FALSE

\* the clock advances between any two steps, or not at all
Tick ==
    /\ now < MaxTime
    /\ now' = now + 1
    /\ UNCHANGED <<store, skip_validation, pending, consumers, last_call,
                   epoch_applied>>


\* ---------------------------------------------------------------- clients
\* register_client (service) + PostgresDatabase::register_client
RegisterClient(user_id, identity, device_name, db_ok) ==
    LET uid == parse_uuid(user_id)
        client_id == NewUuid(clients)
        client == [id |-> client_id, user_id |-> user_id,
                   credential |-> <<"basic", identity>>, scheme |-> "basic",
                   device_name |-> device_name,
                   last_seen |-> now, created_at |-> now]
    IN  /\ Len(clients) < MaxClients
        /\ IF ~uid.ok
           THEN /\ last_call' = Call("RegisterClient", user_id, uid.status, None)
                /\ UNCHANGED clients
           ELSE IF ~db_ok
           THEN /\ last_call' = Call("RegisterClient", user_id,
                                     map_db_error("QueryError"), None)
                /\ UNCHANGED clients
           ELSE /\ clients' = Append(clients, client)
                /\ last_call' = Call("RegisterClient", user_id, "Ok", client_id)
        /\ UNCHANGED <<key_packages, groups, memberships, messages,
                       skip_validation, now, pending, consumers,
                       epoch_applied>>

\* ORDER BY <key> DESC / ASC over a set of rows (key maps a row to its sort
\* key): any sequence holding each
\* row once and respecting the order; rows with equal keys come in any order
Orderings(rows, key, desc) ==
    LET n == Cardinality(rows)
    IN  {s \in [1..n -> rows] :
            /\ \A i, j \in 1..n : i # j => s[i] # s[j]
            /\ \A i, j \in 1..n : i < j =>
                 IF desc THEN key[s[i]] >= key[s[j]]
                         ELSE key[s[i]] <= key[s[j]]}

\* what a failed sqlx call reports: the pool gave no connection in time, the
\* connection broke, the server rejected the statement
SqlxErrors == {"PoolTimedOut", "Io", "Database"}

\* `.map_err(|e| DbError::QueryError(e.to_string()))`, the only mapping of a
\* sqlx error anywhere in PostgresDatabase
query_error(e) == "QueryError"

\* a lookup that finds a row under every id
get_client_any(client_id) == [ok |-> TRUE, value |-> [id |-> client_id]]

\* PostgresDatabase::get_client: SELECT * FROM clients WHERE id = $1
db_get_client(client_id) ==
    IF client_id \in Ids(clients)
    THEN [ok |-> TRUE, value |-> clients[client_id]]
    ELSE [ok |-> FALSE, err |-> "NotFound"]

\* a store whose update leaves last_seen as it was
update_last_seen_noop(cs, client_id) == cs

\* an update without its WHERE clause: every client is stamped
update_last_seen_all(cs, client_id) ==
    [i \in DOMAIN cs |-> [cs[i] EXCEPT !.last_seen = now]]

\* PostgresDatabase::update_client_last_seen:
\*   UPDATE clients SET last_seen = $1 WHERE id = $2, $1 = Utc::now()
db_update_client_last_seen(cs, client_id) ==
    [i \in DOMAIN cs |->
        IF i = client_id THEN [cs[i] EXCEPT !.last_seen = now] ELSE cs[i]]

\* the conversion of a stored client to mls::Client
to_proto_client(c) ==
    [id |-> c.id, user_id |-> c.user_id, credential |-> c.credential,
     scheme |-> c.scheme, device_name |-> c.device_name,
     last_seen |-> c.last_seen, created_at |-> c.created_at]

\* get_client, up to and including db.get_client; db is "ok" or the sqlx
\* error the query ran into
GetClientBegin(client_id, db) ==
    LET cid == parse_uuid(client_id)
        got == db_get_client(client_id)
    IN  /\ Cardinality(pending) < MaxPending
        /\ IF ~cid.ok
           THEN /\ last_call' = Call("GetClient", client_id, cid.status, None)
                /\ UNCHANGED pending
           ELSE IF db # "ok"
           THEN /\ last_call' = CallPre("GetClient", client_id,
                                        map_db_error(query_error(db)), None,
                                        Some(db))
                /\ UNCHANGED pending
           ELSE IF ~got.ok
           THEN /\ last_call' = CallPre("GetClient", client_id,
                                        map_db_error(got.err), None, Some(db))
                /\ UNCHANGED pending
           ELSE /\ pending' = pending \cup
                       {[op |-> "GetClient", client_id |-> client_id,
                         client |-> got.value]}
                /\ UNCHANGED last_call
        /\ UNCHANGED <<store, skip_validation, now, consumers, epoch_applied>>

\* get_client, from `let _ = db.update_client_last_seen(..)` to the
\* response: the outcome of the update is dropped, the record answered is
\* the one read before it
GetClientFinish(p, update_ok) ==
    /\ p \in pending
    /\ p.op = "GetClient"
    /\ pending' = pending \ {p}
    /\ clients' = IF update_ok
                  THEN db_update_client_last_seen(clients, p.client_id)
                  ELSE clients
    /\ last_call' = CallPre("GetClient", p.client_id, "Ok",
                            to_proto_client(p.client),
                            Some(IF update_ok THEN "updated" ELSE "update failed"))
    /\ UNCHANGED <<key_packages, groups, memberships, messages,
                   skip_validation, now, consumers, epoch_applied>>

\* PostgresDatabase::list_clients_by_user:
\*   SELECT * FROM clients WHERE user_id = $1
db_list_clients_by_user(user_id) ==
    {c \in {clients[i] : i \in Ids(clients)} : c.user_id = user_id}

\* list_clients: ... ORDER BY created_at DESC
ListClients(user_id, db) ==
    LET uid == parse_uuid(user_id)
    IN  /\ IF ~uid.ok
           THEN last_call' = Call("ListClients", user_id, uid.status, None)
           ELSE IF db # "ok"
           THEN last_call' = CallPre("ListClients", user_id,
                                     map_db_error(query_error(db)), None,
                                     Some(db))
           ELSE \E rows \in Orderings(db_list_clients_by_user(user_id),
                     [c \in db_list_clients_by_user(user_id) |-> c.created_at],
                     TRUE) :
                   last_call' = CallPre("ListClients", user_id, "Ok",
                       [i \in DOMAIN rows |-> to_proto_client(rows[i])],
                       Some(db))
        /\ UNCHANGED <<store, skip_validation, now, pending, consumers,
                       epoch_applied>>

\* ----------------------------------------------------------- key packages
\* PostgresDatabase::get_key_package: SELECT * FROM key_packages WHERE id = $1
db_get_key_package(key_package_id) ==
    IF key_package_id \in Ids(key_packages)
    THEN [ok |-> TRUE, value |-> key_packages[key_package_id]]
    ELSE [ok |-> FALSE, err |-> "NotFound"]

\* a store that lists every package of the client, consumed or not
list_key_packages_all(client_id) ==
    {kp \in {key_packages[i] : i \in Ids(key_packages)} :
        kp.client_id = client_id}

\* PostgresDatabase::list_key_packages_by_client:
\*   SELECT * FROM key_packages WHERE client_id = $1 AND used = false
db_list_key_packages_by_client(client_id) ==
    {kp \in {key_packages[i] : i \in Ids(key_packages)} :
        kp.client_id = client_id /\ kp.used = FALSE}

\* a store that flips the flag instead of setting it
mark_used_toggle(kps, key_package_id) ==
    [i \in DOMAIN kps |->
        IF i = key_package_id THEN [kps[i] EXCEPT !.used = ~kps[i].used]
                              ELSE kps[i]]

\* PostgresDatabase::mark_key_package_used:
\*   UPDATE key_packages SET used = true WHERE id = $1
\* (no row matched is not an error; no condition on the current flag)
db_mark_key_package_used(kps, key_package_id) ==
    [i \in DOMAIN kps |->
        IF i = key_package_id THEN [kps[i] EXCEPT !.used = TRUE]
                              ELSE kps[i]]

\* the encodings KeyPackageIn::tls_deserialize and KeyPackageIn::validate
\* accept, and the ones a request may carry: empty, garbage, well formed
ValidKeyPackages == {<<7>>, <<8>>}
KeyPackageInputs == {EmptyBytes, <<1>>, <<8>>}

\* validate_key_package: Ok at once when skip_validation, InvalidArgument
\* for empty bytes, else the verdict of tls_deserialize and validate
validate_key_package(bytes) ==
    IF skip_validation THEN TRUE
    ELSE IF bytes = EmptyBytes THEN FALSE
    ELSE bytes \in ValidKeyPackages

\* publish_key_package: the package is built by the service from the client's
\* stored credential; the request's key_package bytes are not read
PublishKeyPackage(client_id, req_key_package, generated, db_ok) ==
    LET cid == parse_uuid(client_id)
        req == <<client_id, req_key_package>>
        got == db_get_client(client_id)
        key_package_id == NewUuid(key_packages)
        record == [id |-> key_package_id, client_id |-> client_id,
                   data |-> generated, created_at |-> now, used |-> FALSE]
    IN  /\ Len(key_packages) < MaxKeyPackages
        /\ IF ~cid.ok
           THEN /\ last_call' = Call("PublishKeyPackage", req, cid.status, None)
                /\ UNCHANGED key_packages
           ELSE IF ~db_ok
           THEN /\ last_call' = CallPre("PublishKeyPackage", req,
                                        map_db_error("QueryError"), None,
                                        Some(db_ok))
                /\ UNCHANGED key_packages
           ELSE IF ~got.ok
           THEN /\ last_call' = CallPre("PublishKeyPackage", req,
                                        map_db_error(got.err), None,
                                        Some(db_ok))
                /\ UNCHANGED key_packages
           ELSE /\ key_packages' = Append(key_packages, record)
                /\ last_call' = CallPre("PublishKeyPackage", req, "Ok",
                                        key_package_id, Some(db_ok))
        /\ UNCHANGED <<clients, groups, memberships, messages,
                       skip_validation, now, pending, consumers, epoch_applied>>

\* get_key_package: returns the row whatever its used flag, changes nothing
GetKeyPackageCall(key_package_id, db_ok) ==
    LET kid == parse_uuid(key_package_id)
        got == db_get_key_package(key_package_id)
    IN  IF ~kid.ok
        THEN last_call' = Call("GetKeyPackage", key_package_id, kid.status, None)
        ELSE IF ~db_ok
        THEN last_call' = Call("GetKeyPackage", key_package_id,
                                map_db_error("QueryError"), None)
        ELSE IF ~got.ok
        THEN last_call' = Call("GetKeyPackage", key_package_id,
                                map_db_error(got.err), None)
        ELSE last_call' = Call("GetKeyPackage", key_package_id, "Ok", got.value)

GetKeyPackage(key_package_id, db_ok) ==
    /\ GetKeyPackageCall(key_package_id, db_ok)
    /\ UNCHANGED <<store, skip_validation, now, pending, consumers, epoch_applied>>

\* list_key_packages
ListKeyPackages(client_id, db_ok) ==
    LET cid == parse_uuid(client_id)
    IN  /\ IF ~cid.ok
           THEN last_call' = Call("ListKeyPackages", client_id, cid.status, None)
           ELSE IF ~db_ok
           THEN last_call' = Call("ListKeyPackages", client_id,
                                  map_db_error("QueryError"), None)
           ELSE \E rows \in Orderings(db_list_key_packages_by_client(client_id),
                     [kp \in db_list_key_packages_by_client(client_id) |->
                         kp.created_at], TRUE) :
                    last_call' = Call("ListKeyPackages", client_id, "Ok", rows)
        /\ UNCHANGED <<store, skip_validation, now, pending, consumers,
                       epoch_applied>>

\* DatabaseInterface::mark_key_package_used, called on the store directly
MarkKeyPackageUsed(key_package_id, db_ok) ==
    /\ IF ~db_ok
       THEN /\ last_call' = Call("mark_key_package_used", key_package_id,
                                 "QueryError", None)
            /\ UNCHANGED key_packages
       ELSE /\ key_packages' = db_mark_key_package_used(key_packages, key_package_id)
            /\ last_call' = Call("mark_key_package_used", key_package_id, "Ok", None)
    /\ UNCHANGED <<clients, groups, memberships, messages, skip_validation,
                   now, pending, consumers, epoch_applied>>

\* a peer consuming a key package: first GetKeyPackage ...
ConsumerFetch(c, key_package_id) ==
    /\ consumers[c].pc = "idle"
    /\ key_package_id \in Ids(key_packages)
    /\ GetKeyPackageCall(key_package_id, TRUE)
    /\ consumers' = [consumers EXCEPT ![c] =
           [pc |-> IF key_packages[key_package_id].used THEN "saw_used"
                                                        ELSE "fetched",
            key_package_id |-> key_package_id]]
    /\ UNCHANGED <<store, skip_validation, now, pending, epoch_applied>>

\* ... then mark_key_package_used; Ok(()) tells the peer the package is its own
ConsumerMark(c) ==
    /\ consumers[c].pc = "fetched"
    /\ key_packages' = db_mark_key_package_used(key_packages,
                                                consumers[c].key_package_id)
    /\ consumers' = [consumers EXCEPT ![c].pc = "fresh"]
    /\ last_call' = Call("mark_key_package_used", consumers[c].key_package_id,
                         "Ok", None)
    /\ UNCHANGED <<clients, groups, memberships, messages, skip_validation,
                   now, pending, epoch_applied>>

ClientIdInputs == Ids(clients) \cup {UnknownUuid, Malformed}
KeyPackageIdInputs == Ids(key_packages) \cup {UnknownUuid, Malformed}

\* ------------------------------------------------------------------ casts
\* `req.epoch as i64`: the request's unsigned epoch reinterpreted as signed
AsI64(u) == IF u >= 2^(EpochBits - 1) THEN u - 2^EpochBits ELSE u
\* `group.epoch as u64`
AsU64(i) == IF i < 0 THEN i + 2^EpochBits ELSE i

\* ------------------------------------------------------------- validators
\* validate_group_state / validate_proposal / validate_commit /
\* validate_welcome: nothing is checked under skip_validation, otherwise
\* only emptiness
validate_bytes(bytes) ==
    IF skip_validation THEN TRUE ELSE bytes # EmptyBytes

\* ----------------------------------------------------------------- groups
\* create_group, up to and including db.create_group
CreateGroupBegin(creator_id, initial_state, db_ok) ==
    LET cid == parse_uuid(creator_id)
        group_id == NewUuid(groups)
        group == [id |-> group_id, creator_id |-> creator_id, epoch |-> 0,
                  state |-> Some(initial_state), created_at |-> now,
                  updated_at |-> now, is_active |-> TRUE]
    IN  /\ Len(groups) < MaxGroups
        /\ Cardinality(pending) < MaxPending
        /\ IF ~cid.ok
           THEN /\ last_call' = Call("CreateGroup", <<creator_id, initial_state>>, cid.status, None)
                /\ UNCHANGED <<groups, pending>>
           ELSE IF ~validate_bytes(initial_state)
           THEN /\ last_call' = Call("CreateGroup", <<creator_id, initial_state>>,
                                     "InvalidArgument", None)
                /\ UNCHANGED <<groups, pending>>
           ELSE IF ~db_ok
           THEN /\ last_call' = Call("CreateGroup", <<creator_id, initial_state>>,
                                     map_db_error("QueryError"), None)
                /\ UNCHANGED <<groups, pending>>
           ELSE /\ groups' = Append(groups, group)
                /\ pending' = pending \cup
                       {[op |-> "CreateGroup", group_id |-> group_id,
                         creator_id |-> creator_id,
                         initial_state |-> initial_state]}
                /\ UNCHANGED last_call
        /\ UNCHANGED <<clients, key_packages, memberships, messages,
                       skip_validation, now, consumers, epoch_applied>>

\* create_group, from db.add_membership to the response
CreateGroupFinish(p, db_ok) ==
    LET membership == [id |-> NewUuid(memberships), client_id |-> p.creator_id,
                       group_id |-> p.group_id, role |-> "admin",
                       added_at |-> now, removed_at |-> None]
    IN  /\ p \in pending
        /\ p.op = "CreateGroup"
        /\ Len(memberships) < MaxMemberships
        /\ pending' = pending \ {p}
        /\ IF ~db_ok
           THEN /\ last_call' = Call("CreateGroup", <<p.creator_id, p.initial_state>>,
                                     map_db_error("QueryError"), None)
                /\ UNCHANGED memberships
           ELSE /\ memberships' = Append(memberships, membership)
                /\ last_call' = Call("CreateGroup", <<p.creator_id, p.initial_state>>, "Ok", p.group_id)
        /\ UNCHANGED <<clients, key_packages, groups, messages,
                       skip_validation, now, consumers, epoch_applied>>

\* the caller abandons a request (deadline, disconnect): the handler's
\* future is dropped at its await, the writes already made stay
Abandon(p) ==
    /\ p \in pending
    /\ pending' = pending \ {p}
    /\ UNCHANGED <<store, skip_validation, now, consumers, last_call,
                   epoch_applied>>

\* get_group
GetGroup(group_id, db_ok) ==
    LET gid == parse_uuid(group_id)
    IN  /\ IF ~gid.ok
           THEN last_call' = Call("GetGroup", group_id, gid.status, None)
           ELSE IF ~db_ok
           THEN last_call' = Call("GetGroup", group_id,
                                  map_db_error("QueryError"), None)
           ELSE IF group_id \notin Ids(groups)
           THEN last_call' = Call("GetGroup", group_id,
                                  map_db_error("NotFound"), None)
           ELSE last_call' = Call("GetGroup", group_id, "Ok",
                     [groups[group_id] EXCEPT
                         !.epoch = AsU64(@), !.state = Unwrap(@)])
        /\ UNCHANGED <<store, skip_validation, now, pending, consumers,
                       epoch_applied>>

\* a listing that forgets `m.removed_at IS NULL`
list_groups_any_membership(client_id) ==
    {pair \in Ids(groups) \X Ids(memberships) :
        /\ pair[1] = memberships[pair[2]].group_id
        /\ memberships[pair[2]].client_id = client_id
        /\ groups[pair[1]].is_active = TRUE}

\* PostgresDatabase::list_groups_by_client, the rows of
\*   groups g JOIN memberships m ON g.id = m.group_id
\*   WHERE m.client_id = $1 AND m.removed_at IS NULL AND g.is_active = true
\* as <<group id, membership id>> pairs: one row per matching membership
db_list_groups_by_client(client_id) ==
    {pair \in Ids(groups) \X Ids(memberships) :
        /\ pair[1] = memberships[pair[2]].group_id
        /\ memberships[pair[2]].client_id = client_id
        /\ memberships[pair[2]].removed_at = None
        /\ groups[pair[1]].is_active = TRUE}

\* list_groups: SELECT g.* ... ORDER BY g.updated_at DESC
ListGroups(client_id, db_ok) ==
    LET cid == parse_uuid(client_id)
    IN  /\ IF ~cid.ok
           THEN last_call' = Call("ListGroups", client_id, cid.status, None)
           ELSE IF ~db_ok
           THEN last_call' = Call("ListGroups", client_id,
                                  map_db_error("QueryError"), None)
           ELSE \E rows \in Orderings(db_list_groups_by_client(client_id),
                     [pair \in db_list_groups_by_client(client_id) |->
                         groups[pair[1]].updated_at], TRUE) :
                   last_call' = Call("ListGroups", client_id, "Ok",
                       [i \in DOMAIN rows |->
                           [groups[rows[i][1]] EXCEPT
                               !.epoch = AsU64(@), !.state = Unwrap(@)]])
        /\ UNCHANGED <<store, skip_validation, now, pending, consumers,
                       epoch_applied>>

\* ------------------------------------------------------------ memberships
\* add_member: neither the group nor the client is looked up
AddMember(group_id, client_id, role, db_ok) ==
    LET gid == parse_uuid(group_id)
        cid == parse_uuid(client_id)
        membership_id == NewUuid(memberships)
        membership == [id |-> membership_id, client_id |-> client_id,
                       group_id |-> group_id, role |-> role,
                       added_at |-> now, removed_at |-> None]
    IN  /\ Len(memberships) < MaxMemberships
        /\ IF ~gid.ok
           THEN /\ last_call' = Call("AddMember", <<group_id, client_id>>,
                                     gid.status, None)
                /\ UNCHANGED memberships
           ELSE IF ~cid.ok
           THEN /\ last_call' = Call("AddMember", <<group_id, client_id>>,
                                     cid.status, None)
                /\ UNCHANGED memberships
           ELSE IF ~db_ok
           THEN /\ last_call' = Call("AddMember", <<group_id, client_id>>,
                                     map_db_error("QueryError"), None)
                /\ UNCHANGED memberships
           ELSE /\ memberships' = Append(memberships, membership)
                /\ last_call' = Call("AddMember", <<group_id, client_id>>,
                                     "Ok", membership_id)
        /\ UNCHANGED <<clients, key_packages, groups, messages,
                       skip_validation, now, pending, consumers, epoch_applied>>

\* a store whose second removal brings the membership back
remove_membership_toggle(ms, membership_id) ==
    [i \in DOMAIN ms |->
        IF i = membership_id
        THEN [ms[i] EXCEPT !.removed_at = IF @ = None THEN Some(now) ELSE None]
        ELSE ms[i]]

\* a removal that deletes the row
remove_membership_delete(ms, membership_id) ==
    SelectSeq(ms, LAMBDA m : m.id # membership_id)

\* PostgresDatabase::remove_membership:
\*   UPDATE memberships SET removed_at = $1 WHERE id = $2
\* (no row matched is not an error)
db_remove_membership(ms, membership_id) ==
    [i \in DOMAIN ms |->
        IF i = membership_id THEN [ms[i] EXCEPT !.removed_at = Some(now)]
                             ELSE ms[i]]

\* remove_member
RemoveMember(membership_id, db_ok) ==
    LET mid == parse_uuid(membership_id)
        found == IF membership_id \in Ids(memberships)
                 THEN Some(memberships[membership_id].removed_at)
                 ELSE None
    IN  /\ IF ~mid.ok
           THEN /\ last_call' = Call("RemoveMember", membership_id,
                                     mid.status, None)
                /\ UNCHANGED memberships
           ELSE IF ~db_ok
           THEN /\ last_call' = CallPre("RemoveMember", membership_id,
                                     map_db_error("QueryError"), None, found)
                /\ UNCHANGED memberships
           ELSE /\ memberships' = db_remove_membership(memberships, membership_id)
                /\ last_call' = CallPre("RemoveMember", membership_id, "Ok",
                                        [success |-> TRUE], found)
        /\ UNCHANGED <<clients, key_packages, groups, messages,
                       skip_validation, now, pending, consumers, epoch_applied>>

\* a listing that forgets `group_id = $1`
list_memberships_every_group(group_id) ==
    {m \in {memberships[i] : i \in Ids(memberships)} : m.removed_at = None}

\* PostgresDatabase::list_memberships_by_group:
\*   SELECT * FROM memberships WHERE group_id = $1 AND removed_at IS NULL
db_list_memberships_by_group(group_id) ==
    {m \in {memberships[i] : i \in Ids(memberships)} :
        m.group_id = group_id /\ m.removed_at = None}

\* list_memberships (no ORDER BY: the rows come in any order)
ListMemberships(group_id, db_ok) ==
    LET gid == parse_uuid(group_id)
        rows == db_list_memberships_by_group(group_id)
    IN  /\ IF ~gid.ok
           THEN last_call' = Call("ListMemberships", group_id, gid.status, None)
           ELSE IF ~db_ok
           THEN last_call' = Call("ListMemberships", group_id,
                                  map_db_error("QueryError"), None)
           ELSE \E s \in {t \in [1..Cardinality(rows) -> rows] :
                            \A i, j \in DOMAIN t : i # j => t[i] # t[j]} :
                   last_call' = Call("ListMemberships", group_id, "Ok", s)
        /\ UNCHANGED <<store, skip_validation, now, pending, consumers,
                       epoch_applied>>

\* --------------------------------------------------------------- messages
\* a store that advances the epoch by one whatever the target
update_group_epoch_increment(gs, group_id, epoch) ==
    [i \in DOMAIN gs |->
        IF i = group_id THEN [gs[i] EXCEPT !.epoch = @ + 1, !.updated_at = now]
                        ELSE gs[i]]

\* PostgresDatabase::update_group_epoch:
\*   UPDATE groups SET epoch = $1, updated_at = $2 WHERE id = $3
\* (no condition on the current epoch; no row matched is not an error)
db_update_group_epoch(gs, group_id, epoch) ==
    [i \in DOMAIN gs |->
        IF i = group_id THEN [gs[i] EXCEPT !.epoch = epoch, !.updated_at = now]
                        ELSE gs[i]]

\* store_commit, up to and including db.store_message
StoreCommitBegin(group_id, sender_id, commit, epoch, db_ok) ==
    LET gid == parse_uuid(group_id)
        sid == parse_uuid(sender_id)
        message_id == NewUuid(messages)
        message == [id |-> message_id, group_id |-> group_id,
                    sender_id |-> sender_id, created_at |-> now,
                    read |-> FALSE, message_type |-> "commit",
                    proposal |-> None, commit |-> Some(commit),
                    welcome |-> None, proposal_type |-> None,
                    epoch |-> Some(AsI64(epoch)), recipients |-> None]
        req == <<group_id, sender_id, epoch, commit>>
    IN  /\ Len(messages) < MaxMessages
        /\ Cardinality(pending) < MaxPending
        /\ IF ~gid.ok
           THEN /\ last_call' = Call("StoreCommit", req, gid.status, None)
                /\ UNCHANGED <<messages, pending>>
           ELSE IF ~sid.ok
           THEN /\ last_call' = Call("StoreCommit", req, sid.status, None)
                /\ UNCHANGED <<messages, pending>>
           ELSE IF ~validate_bytes(commit)
           THEN /\ last_call' = Call("StoreCommit", req, "InvalidArgument", None)
                /\ UNCHANGED <<messages, pending>>
           ELSE IF ~db_ok
           THEN /\ last_call' = Call("StoreCommit", req,
                                     map_db_error("QueryError"), None)
                /\ UNCHANGED <<messages, pending>>
           ELSE /\ messages' = Append(messages, message)
                /\ pending' = pending \cup
                      {[op |-> "StoreCommit", message_id |-> message_id,
                        group_id |-> group_id, sender_id |-> sender_id,
                        epoch |-> epoch, commit |-> commit,
                        \* history: the group's epoch when the call began,
                        \* and whether a commit begun at that same epoch
                        \* has been accepted since
                        base_epoch |-> IF group_id \in Ids(groups)
                                       THEN Some(groups[group_id].epoch)
                                       ELSE None,
                        raced |-> FALSE]}
                /\ UNCHANGED last_call
        /\ UNCHANGED <<clients, key_packages, groups, memberships,
                       skip_validation, now, consumers, epoch_applied>>

\* store_commit, from db.update_group_epoch to the response
StoreCommitFinish(p, db_ok) ==
    LET req == <<p.group_id, p.sender_id, p.epoch, p.commit>>
        hit == p.group_id \in Ids(groups)
        pre == [base_epoch |-> p.base_epoch,
                prev_epoch |-> IF hit THEN Some(groups[p.group_id].epoch)
                                      ELSE None,
                raced |-> p.raced]
    IN  /\ p \in pending
        /\ p.op = "StoreCommit"
        /\ IF ~db_ok
           THEN /\ last_call' = CallPre("StoreCommit", req,
                                        map_db_error("QueryError"), None, pre)
                /\ pending' = pending \ {p}
                /\ UNCHANGED <<groups, epoch_applied>>
           ELSE /\ groups' = db_update_group_epoch(groups, p.group_id,
                                                   AsI64(p.epoch))
                /\ epoch_applied' = IF hit THEN epoch_applied \cup {p.message_id}
                                           ELSE epoch_applied
                /\ pending' =
                      {IF /\ hit
                          /\ q.op = "StoreCommit"
                          /\ q.group_id = p.group_id
                          /\ q.base_epoch = p.base_epoch
                       THEN [q EXCEPT !.raced = TRUE] ELSE q :
                       q \in pending \ {p}}
                /\ last_call' = CallPre("StoreCommit", req, "Ok",
                                        p.message_id, pre)
        /\ UNCHANGED <<clients, key_packages, memberships, messages,
                       skip_validation, now, consumers>>

\* a proposal record that also carries an epoch
proposal_message_with_epoch(message_id, group_id, sender_id, proposal, proposal_type) ==
    [id |-> message_id, group_id |-> group_id, sender_id |-> sender_id,
     created_at |-> now, read |-> FALSE, message_type |-> "proposal",
     proposal |-> Some(proposal), commit |-> None, welcome |-> None,
     proposal_type |-> Some(proposal_type), epoch |-> Some(0),
     recipients |-> None]

\* the crate::db::Message built by store_proposal
proposal_message(message_id, group_id, sender_id, proposal, proposal_type) ==
    [id |-> message_id, group_id |-> group_id, sender_id |-> sender_id,
     created_at |-> now, read |-> FALSE, message_type |-> "proposal",
     proposal |-> Some(proposal), commit |-> None, welcome |-> None,
     proposal_type |-> Some(proposal_type), epoch |-> None,
     recipients |-> None]

\* a welcome row whose recipient list is stored back to front
welcome_message_reversed(message_id, group_id, sender_id, welcome, recipients) ==
    [id |-> message_id, group_id |-> group_id, sender_id |-> sender_id,
     created_at |-> now, read |-> FALSE, message_type |-> "welcome",
     proposal |-> None, commit |-> None, welcome |-> Some(welcome),
     proposal_type |-> None, epoch |-> None,
     recipients |-> Some([k \in DOMAIN recipients |->
                             recipients[Len(recipients) + 1 - k]])]

\* the crate::db::Message built by store_welcome
welcome_message(message_id, group_id, sender_id, welcome, recipients) ==
    [id |-> message_id, group_id |-> group_id, sender_id |-> sender_id,
     created_at |-> now, read |-> FALSE, message_type |-> "welcome",
     proposal |-> None, commit |-> None, welcome |-> Some(welcome),
     proposal_type |-> None, epoch |-> None,
     recipients |-> Some(recipients)]

\* a store_proposal that also advances the epoch of the group it names
StoreProposalAdvancingEpoch(group_id, sender_id, proposal, proposal_type, db_ok) ==
    LET message_id == NewUuid(messages)
        req == <<group_id, sender_id, proposal>>
    IN  /\ Len(messages) < MaxMessages
        /\ parse_uuid(group_id).ok /\ parse_uuid(sender_id).ok
        /\ validate_bytes(proposal) /\ db_ok
        /\ messages' = Append(messages,
               proposal_message(message_id, group_id, sender_id,
                                proposal, proposal_type))
        /\ groups' = [i \in DOMAIN groups |->
               IF i = group_id THEN [groups[i] EXCEPT !.epoch = @ + 1]
                               ELSE groups[i]]
        /\ last_call' = Call("StoreProposal", req, "Ok", message_id)
        /\ UNCHANGED <<clients, key_packages, memberships,
                       skip_validation, now, pending, consumers, epoch_applied>>

\* store_proposal: neither the group nor the sender is looked up
StoreProposal(group_id, sender_id, proposal, proposal_type, db_ok) ==
    LET gid == parse_uuid(group_id)
        sid == parse_uuid(sender_id)
        message_id == NewUuid(messages)
        req == <<group_id, sender_id, proposal>>
    IN  /\ Len(messages) < MaxMessages
        /\ IF ~gid.ok
           THEN /\ last_call' = Call("StoreProposal", req, gid.status, None)
                /\ UNCHANGED messages
           ELSE IF ~sid.ok
           THEN /\ last_call' = Call("StoreProposal", req, sid.status, None)
                /\ UNCHANGED messages
           ELSE IF ~validate_bytes(proposal)
           THEN /\ last_call' = Call("StoreProposal", req, "InvalidArgument", None)
                /\ UNCHANGED messages
           ELSE IF ~db_ok
           THEN /\ last_call' = Call("StoreProposal", req,
                                     map_db_error("QueryError"), None)
                /\ UNCHANGED messages
           ELSE /\ messages' = Append(messages,
                       proposal_message(message_id, group_id, sender_id,
                                        proposal, proposal_type))
                /\ last_call' = Call("StoreProposal", req, "Ok", message_id)
        /\ UNCHANGED <<clients, key_packages, groups, memberships,
                       skip_validation, now, pending, consumers, epoch_applied>>

\* store_welcome: the welcome is validated first, then every recipient id
\* is parsed
StoreWelcome(group_id, sender_id, welcome, recipient_ids, db_ok) ==
    LET gid == parse_uuid(group_id)
        sid == parse_uuid(sender_id)
        message_id == NewUuid(messages)
        req == <<group_id, sender_id, recipient_ids, welcome>>
    IN  /\ Len(messages) < MaxMessages
        /\ IF ~gid.ok
           THEN /\ last_call' = Call("StoreWelcome", req, gid.status, None)
                /\ UNCHANGED messages
           ELSE IF ~sid.ok
           THEN /\ last_call' = Call("StoreWelcome", req, sid.status, None)
                /\ UNCHANGED messages
           ELSE IF ~validate_bytes(welcome)
           THEN /\ last_call' = Call("StoreWelcome", req, "InvalidArgument", None)
                /\ UNCHANGED messages
           ELSE IF \E i \in DOMAIN recipient_ids : ~parse_uuid(recipient_ids[i]).ok
           THEN /\ last_call' = Call("StoreWelcome", req, "InvalidArgument", None)
                /\ UNCHANGED messages
           ELSE IF ~db_ok
           THEN /\ last_call' = Call("StoreWelcome", req,
                                     map_db_error("QueryError"), None)
                /\ UNCHANGED messages
           ELSE /\ messages' = Append(messages,
                       welcome_message(message_id, group_id, sender_id,
                                       welcome, recipient_ids))
                /\ last_call' = Call("StoreWelcome", req, "Ok", message_id)
        /\ UNCHANGED <<clients, key_packages, groups, memberships,
                       skip_validation, now, pending, consumers, epoch_applied>>

\* an update that matches no row
mark_messages_read_noop(msgs, message_ids) == msgs

\* an update that flips the flag of the listed messages
mark_messages_read_toggle(msgs, message_ids) ==
    [i \in DOMAIN msgs |->
        IF i \in message_ids THEN [msgs[i] EXCEPT !.read = ~@] ELSE msgs[i]]

\* an update without its WHERE clause: every message is marked
mark_all_messages_read(msgs, message_ids) ==
    [i \in DOMAIN msgs |-> [msgs[i] EXCEPT !.read = TRUE]]

\* PostgresDatabase::mark_messages_read: one transaction of
\*   UPDATE messages SET read = true WHERE id = $1
\* per id (an id that matches no row is not an error)
db_mark_messages_read(msgs, message_ids) ==
    [i \in DOMAIN msgs |->
        IF i \in message_ids THEN [msgs[i] EXCEPT !.read = TRUE] ELSE msgs[i]]

\* DatabaseInterface::mark_messages_read, called on the store directly
MarkMessagesRead(message_ids, db_ok) ==
    /\ IF ~db_ok
       THEN /\ last_call' = Call("mark_messages_read", message_ids,
                                 "QueryError", None)
            /\ UNCHANGED messages
       ELSE /\ messages' = db_mark_messages_read(messages, message_ids)
            /\ last_call' = Call("mark_messages_read", message_ids, "Ok", None)
    /\ UNCHANGED <<clients, key_packages, groups, memberships, skip_validation,
                   now, pending, consumers, epoch_applied>>

\* a store that returns read messages whatever include_read says
fetch_ignoring_read_flag(client_id, group_id, include_read) ==
    {row \in Ids(messages) \X Ids(memberships) :
        /\ messages[row[1]].group_id = memberships[row[2]].group_id
        /\ memberships[row[2]].client_id = client_id
        /\ group_id # None => messages[row[1]].group_id = Unwrap(group_id)}

\* PostgresDatabase::fetch_messages_for_client, the rows of
\*   messages m JOIN memberships mem ON m.group_id = mem.group_id
\*   WHERE mem.client_id = $1 [AND m.group_id = $2] [AND m.read = false]
\* as <<message id, membership id>> pairs: one row per membership row of the
\* client in the message's group, removed or not
db_fetch_messages_for_client(client_id, group_id, include_read) ==
    {row \in Ids(messages) \X Ids(memberships) :
        /\ messages[row[1]].group_id = memberships[row[2]].group_id
        /\ memberships[row[2]].client_id = client_id
        /\ group_id # None => messages[row[1]].group_id = Unwrap(group_id)
        /\ ~include_read => messages[row[1]].read = FALSE}

\* the sequences that hold message id x count[x] times and never put a
\* message before one with a smaller key
RECURSIVE AscSeqs(_, _)
AscSeqs(count, key) ==
    LET live == {x \in DOMAIN count : count[x] > 0}
        first == {x \in live : \A y \in live : key[x] <= key[y]}
    IN  IF live = {} THEN {<<>>}
        ELSE UNION {{<<x>> \o t : t \in AscSeqs([count EXCEPT ![x] = @ - 1], key)} :
                    x \in first}

\* a store that answers newest-first
order_by_created_at_desc(rows) ==
    LET ids == {row[1] : row \in rows}
    IN  AscSeqs([x \in ids |-> Cardinality({row \in rows : row[1] = x})],
                [x \in ids |-> 0 - messages[x].created_at])

\* SELECT m.* ... ORDER BY m.created_at ASC over the join rows: the message
\* ids in the order the store may return them; rows with equal created_at
\* come in any order
order_by_created_at(rows) ==
    LET ids == {row[1] : row \in rows}
    IN  AscSeqs([x \in ids |-> Cardinality({row \in rows : row[1] = x})],
                [x \in ids |-> messages[x].created_at])

\* a conversion that hands every payload out as a proposal
to_proto_message_as_proposal(m) ==
    [id |-> m.id, group_id |-> m.group_id, sender_id |-> m.sender_id,
     created_at |-> m.created_at, read |-> m.read,
     message_type |-> m.message_type,
     content |-> IF m.proposal # None THEN Some(<<"Proposal", Unwrap(m.proposal)>>)
                 ELSE IF m.commit # None THEN Some(<<"Proposal", Unwrap(m.commit)>>)
                 ELSE IF m.welcome # None THEN Some(<<"Proposal", Unwrap(m.welcome)>>)
                 ELSE None]

\* fetch_messages, the conversion of a stored row to mls::Message: content
\* is the first populated one of proposal, commit, welcome
to_proto_message(m) ==
    [id |-> m.id, group_id |-> m.group_id, sender_id |-> m.sender_id,
     created_at |-> m.created_at, read |-> m.read,
     message_type |-> m.message_type,
     content |-> IF m.proposal # None THEN Some(<<"Proposal", Unwrap(m.proposal)>>)
                 ELSE IF m.commit # None THEN Some(<<"Commit", Unwrap(m.commit)>>)
                 ELSE IF m.welcome # None THEN Some(<<"Welcome", Unwrap(m.welcome)>>)
                 ELSE None]

\* fetch_messages: group_id is None for an empty group_id string
FetchMessages(client_id, group_id, include_read, db_ok) ==
    LET cid == parse_uuid(client_id)
        gid == IF group_id = None THEN [ok |-> TRUE]
                                  ELSE parse_uuid(Unwrap(group_id))
        req == [client_id |-> client_id, group_id |-> group_id,
                include_read |-> include_read]
    IN  /\ IF ~cid.ok
           THEN last_call' = Call("FetchMessages", req, cid.status, None)
           ELSE IF ~gid.ok
           THEN last_call' = Call("FetchMessages", req, gid.status, None)
           ELSE IF ~db_ok
           THEN last_call' = Call("FetchMessages", req,
                                  map_db_error("QueryError"), None)
           ELSE \E s \in order_by_created_at(
                        db_fetch_messages_for_client(client_id, group_id,
                                                     include_read)) :
                   last_call' = Call("FetchMessages", req, "Ok",
                       [i \in DOMAIN s |-> to_proto_message(messages[s[i]])])
        /\ UNCHANGED <<store, skip_validation, now, pending, consumers,
                       epoch_applied>>

\* key-package handlers and the store's mark_key_package_used
NextKeys ==
    \/ \E db_ok \in BOOLEAN : RegisterClient(CHOOSE u \in UserUuids : TRUE,
                                             "alice-1", "phone", db_ok)
    \/ \E c \in ClientIdInputs, g \in GeneratedKeyPackages, db_ok \in BOOLEAN :
          PublishKeyPackage(c, <<1>>, g, db_ok)
    \/ \E k \in KeyPackageIdInputs, db_ok \in BOOLEAN : GetKeyPackage(k, db_ok)
    \/ \E c \in ClientIdInputs, db_ok \in BOOLEAN : ListKeyPackages(c, db_ok)
    \/ \E k \in KeyPackageIdInputs \ {Malformed}, db_ok \in BOOLEAN :
          MarkKeyPackageUsed(k, db_ok)

SpecKeys == Init /\ [][NextKeys]_vars

\* peers consuming published key packages concurrently
NextConsume ==
    \/ RegisterClient(CHOOSE u \in UserUuids : TRUE, "alice-1", "phone", TRUE)
    \/ \E c \in Ids(clients), g \in GeneratedKeyPackages :
          PublishKeyPackage(c, <<1>>, g, TRUE)
    \/ \E c \in 1..NumConsumers, k \in Ids(key_packages) : ConsumerFetch(c, k)
    \/ \E c \in 1..NumConsumers : ConsumerMark(c)

SpecConsume == Init /\ [][NextConsume]_vars


\* group ids a caller can hold: those of groups whose create_group is not
\* still running
ReturnedGroups ==
    {g \in Ids(groups) :
        ~\E p \in pending : p.op = "CreateGroup" /\ p.group_id = g}
GroupIdInputs == ReturnedGroups \cup {UnknownUuid, Malformed}
MembershipIdInputs == Ids(memberships) \cup {UnknownUuid, Malformed}

\* groups and memberships; members are added to groups whose creation has
\* returned, the store does not fail
NextMembers ==
    \/ \E c \in ExternalClients : CreateGroupBegin(c, <<9>>, TRUE)
    \/ \E p \in pending : CreateGroupFinish(p, TRUE)
    \/ \E g \in ReturnedGroups, c \in ExternalClients :
          AddMember(g, c, "member", TRUE)
    \/ \E m \in MembershipIdInputs : RemoveMember(m, TRUE)
    \/ \E c \in ExternalClients : ListGroups(c, TRUE)

SpecMembers == InitProduction /\ [][NextMembers]_vars

\* commits against groups; the store may fail between the two writes
NextCommit ==
    \/ CreateGroupBegin(CHOOSE c \in ExternalClients : TRUE, <<9>>, TRUE)
    \/ \E p \in pending : CreateGroupFinish(p, TRUE)
    \/ \E p \in pending : Abandon(p)
    \/ \E g \in ReturnedGroups \cup {UnknownUuid}, e \in 0..MaxEpoch :
          StoreCommitBegin(g, CHOOSE x \in ExternalClients : TRUE, <<9>>, e, TRUE)
    \/ \E p \in pending, db_ok \in BOOLEAN : StoreCommitFinish(p, db_ok)
    \/ \E g \in ReturnedGroups : GetGroup(g, TRUE)

SpecCommit == InitProduction /\ [][NextCommit]_vars

\* delivery against memberships: proposals are stored in groups whose
\* creation has returned, members come and go, the store does not fail
NextFetch ==
    \/ CreateGroupBegin(CHOOSE c \in ExternalClients : TRUE, <<9>>, TRUE)
    \/ \E p \in pending : CreateGroupFinish(p, TRUE)
    \/ \E g \in ReturnedGroups, c \in ExternalClients :
          AddMember(g, c, "member", TRUE)
    \/ \E m \in Ids(memberships) : RemoveMember(m, TRUE)
    \/ \E g \in ReturnedGroups :
          StoreProposal(g, CHOOSE c \in ExternalClients : TRUE, <<9>>, "add", TRUE)
    \/ \E c \in ExternalClients, g \in {None} \cup {Some(x) : x \in ReturnedGroups},
          include_read \in BOOLEAN :
          FetchMessages(c, g, include_read, TRUE)

SpecFetch == InitProduction /\ [][NextFetch]_vars

\* delivery and read marks: groups are set up first, then proposals are
\* stored, marked read and fetched
NextRead ==
    \/ /\ messages = <<>>
       /\ CreateGroupBegin(CHOOSE c \in ExternalClients : TRUE, <<9>>, TRUE)
    \/ \E p \in pending : CreateGroupFinish(p, TRUE)
    \/ \E g \in ReturnedGroups :
          StoreProposal(g, CHOOSE c \in ExternalClients : TRUE, <<9>>, "add", TRUE)
    \/ \E m \in Ids(messages) \cup {UnknownUuid} : MarkMessagesRead({m}, TRUE)
    \/ \E c \in ExternalClients, g \in {None} \cup {Some(x) : x \in ReturnedGroups},
          include_read \in BOOLEAN :
          FetchMessages(c, g, include_read, TRUE)

SpecRead == InitProduction /\ [][NextRead]_vars

\* delivery over time: groups are set up first, then the clock advances
\* while proposals are stored and fetched
NextOrder ==
    \/ Tick
    \/ /\ messages = <<>>
       /\ now = 1
       /\ CreateGroupBegin(CHOOSE c \in ExternalClients : TRUE, <<9>>, TRUE)
    \/ \E p \in pending : CreateGroupFinish(p, TRUE)
    \/ \E g \in ReturnedGroups :
          StoreProposal(g, CHOOSE c \in ExternalClients : TRUE, <<9>>, "add", TRUE)
    \/ \E c \in ExternalClients, g \in {None} \cup {Some(x) : x \in ReturnedGroups} :
          FetchMessages(c, g, TRUE, TRUE)

SpecOrder == InitProduction /\ [][NextOrder]_vars

\* creation of groups with everything that can go wrong between the two
\* writes, and the reads that follow
NextCreate ==
    \/ \E c \in ExternalClients, st \in Payloads : CreateGroupBegin(c, st, TRUE)
    \/ \E p \in pending, db_ok \in BOOLEAN : CreateGroupFinish(p, db_ok)
    \/ \E p \in pending : Abandon(p)
    \/ \E g \in ReturnedGroups : GetGroup(g, TRUE)
    \/ \E g \in ReturnedGroups : ListMemberships(g, TRUE)

SpecCreate == Init /\ [][NextCreate]_vars

\* the roster of a group: members are added and removed, the roster is
\* listed, the store does not fail
NextRoster ==
    \/ CreateGroupBegin(CHOOSE c \in ExternalClients : TRUE, <<9>>, TRUE)
    \/ \E p \in pending : CreateGroupFinish(p, TRUE)
    \/ \E g \in ReturnedGroups, c \in ExternalClients :
          AddMember(g, c, "member", TRUE)
    \/ \E m \in MembershipIdInputs : RemoveMember(m, TRUE)
    \/ \E g \in GroupIdInputs : ListMemberships(g, TRUE)

SpecRoster == InitProduction /\ [][NextRoster]_vars

\* every handler that stores a message, with any payload, in either
\* validator configuration, for one group
NextMessages ==
    \/ /\ groups = <<>>
       /\ CreateGroupBegin(CHOOSE c \in ExternalClients : TRUE, <<9>>, TRUE)
    \/ \E p \in pending : CreateGroupFinish(p, TRUE)
    \/ \E g \in ReturnedGroups, b \in Payloads :
          StoreProposal(g, CHOOSE c \in ExternalClients : TRUE, b, "add", TRUE)
    \/ \E g \in ReturnedGroups, b \in Payloads :
          StoreCommitBegin(g, CHOOSE c \in ExternalClients : TRUE, b, 1, TRUE)
    \/ \E p \in pending, db_ok \in BOOLEAN : StoreCommitFinish(p, db_ok)
    \/ \E g \in ReturnedGroups, b \in Payloads, rs \in {<<>>, <<92, Malformed>>} :
          StoreWelcome(g, CHOOSE c \in ExternalClients : TRUE, b, rs, TRUE)
    \/ \E m \in Ids(messages) : MarkMessagesRead({m}, TRUE)

SpecMessages == Init /\ [][NextMessages]_vars

\* commits to one group, with small and with the largest target epoch, and
\* the reads that follow; the second write may fail
NextCommitResult ==
    \/ /\ groups = <<>>
       /\ CreateGroupBegin(CHOOSE c \in ExternalClients : TRUE, <<9>>, TRUE)
    \/ \E p \in pending : p.op = "CreateGroup" /\ CreateGroupFinish(p, TRUE)
    \/ \E g \in ReturnedGroups, e \in {1, MaxEpoch, 2^EpochBits - 1} :
          StoreCommitBegin(g, CHOOSE x \in ExternalClients : TRUE, <<9>>, e, TRUE)
    \/ \E p \in pending, db_ok \in BOOLEAN :
          p.op = "StoreCommit" /\ StoreCommitFinish(p, db_ok)
    \/ \E g \in ReturnedGroups : GetGroup(g, TRUE)

SpecCommitResult == InitProduction /\ [][NextCommitResult]_vars

\* an identifier as a request carries it: not a UUID, or the given one
WithMalformed(id) == {Malformed, id}

\* every handler, called with identifiers that are malformed or name the
\* first row of their table, against a store that answers or fails
NextMalformed ==
    \/ \E u \in WithMalformed(CHOOSE x \in UserUuids : TRUE), db_ok \in BOOLEAN :
          /\ u # Malformed => clients = <<>>
          /\ RegisterClient(u, "alice-1", "phone", db_ok)
    \/ \E c \in WithMalformed(1), db \in {"ok", "Io"} : GetClientBegin(c, db)
    \/ \E p \in pending : p.op = "GetClient" /\ GetClientFinish(p, TRUE)
    \/ \E u \in WithMalformed(CHOOSE x \in UserUuids : TRUE), db \in {"ok", "Io"} :
          ListClients(u, db)
    \/ \E c \in WithMalformed(1), g \in GeneratedKeyPackages, db_ok \in BOOLEAN :
          /\ c # Malformed => key_packages = <<>>
          /\ PublishKeyPackage(c, <<8>>, g, db_ok)
    \/ \E k \in WithMalformed(1), db_ok \in BOOLEAN : GetKeyPackage(k, db_ok)
    \/ \E c \in WithMalformed(1), db_ok \in BOOLEAN : ListKeyPackages(c, db_ok)
    \/ \E c \in WithMalformed(91), db_ok \in BOOLEAN :
          /\ c # Malformed => groups = <<>>
          /\ CreateGroupBegin(c, <<9>>, db_ok)
    \/ \E p \in pending : p.op = "CreateGroup" /\ CreateGroupFinish(p, TRUE)
    \/ \E g \in WithMalformed(1), db_ok \in BOOLEAN : GetGroup(g, db_ok)
    \/ \E c \in WithMalformed(91), db_ok \in BOOLEAN : ListGroups(c, db_ok)
    \/ \E g \in WithMalformed(1), c \in WithMalformed(92), db_ok \in BOOLEAN :
          /\ (g # Malformed /\ c # Malformed) =>
                (g \in ReturnedGroups /\ Len(memberships) <= 1)
          /\ AddMember(g, c, "member", db_ok)
    \/ \E m \in WithMalformed(1), db_ok \in BOOLEAN :
          /\ m # Malformed => m \in Ids(memberships)
          /\ RemoveMember(m, db_ok)
    \/ \E g \in WithMalformed(1), db_ok \in BOOLEAN : ListMemberships(g, db_ok)
    \/ \E g \in WithMalformed(1), s \in WithMalformed(91), db_ok \in BOOLEAN :
          /\ (g # Malformed /\ s # Malformed) =>
                (g \in ReturnedGroups /\ messages = <<>>)
          /\ StoreProposal(g, s, <<9>>, "add", db_ok)
    \/ \E g \in WithMalformed(1), s \in WithMalformed(91), db_ok \in BOOLEAN :
          /\ (g # Malformed /\ s # Malformed) =>
                (g \in ReturnedGroups /\ messages = <<>>)
          /\ StoreCommitBegin(g, s, <<9>>, 1, db_ok)
    \/ \E p \in pending : p.op = "StoreCommit" /\ StoreCommitFinish(p, TRUE)
    \/ \E g \in WithMalformed(1), s \in WithMalformed(91), db_ok \in BOOLEAN :
          /\ (g # Malformed /\ s # Malformed) =>
                (g \in ReturnedGroups /\ messages = <<>>)
          /\ StoreWelcome(g, s, <<9>>, <<>>, db_ok)
    \/ \E c \in WithMalformed(91), gf \in {None, Some(Malformed), Some(1)},
          db_ok \in BOOLEAN : FetchMessages(c, gf, TRUE, db_ok)

SpecMalformed == Init /\ [][NextMalformed]_vars

\* publishing: one registered client; packages are published for it, for an
\* unregistered id and for a malformed one, with request bytes of every kind
NextPublish ==
    \/ /\ clients = <<>>
       /\ RegisterClient(CHOOSE u \in UserUuids : TRUE, "alice-1", "phone", TRUE)
    \/ \E c \in ClientIdInputs, b \in KeyPackageInputs,
          g \in GeneratedKeyPackages, db_ok \in BOOLEAN :
          PublishKeyPackage(c, b, g, db_ok)
    \/ \E k \in KeyPackageIdInputs : GetKeyPackage(k, TRUE)

SpecPublish == Init /\ [][NextPublish]_vars

\* payloads that differ in content and in length
RoundTripPayloads == {<<9>>, <<1, 2>>}

\* one group; its creator stores artifacts of every kind and reads them back
NextRoundTrip ==
    \/ \E st \in RoundTripPayloads :
          /\ groups = <<>>
          /\ CreateGroupBegin(91, st, TRUE)
    \/ \E p \in pending : p.op = "CreateGroup" /\ CreateGroupFinish(p, TRUE)
    \/ \E g \in ReturnedGroups : GetGroup(g, TRUE)
    \/ \E g \in ReturnedGroups, b \in RoundTripPayloads :
          StoreProposal(g, 91, b, "add", TRUE)
    \/ \E g \in ReturnedGroups, b \in RoundTripPayloads :
          StoreCommitBegin(g, 91, b, 1, TRUE)
    \/ \E p \in pending : p.op = "StoreCommit" /\ StoreCommitFinish(p, TRUE)
    \/ \E g \in ReturnedGroups, b \in RoundTripPayloads :
          StoreWelcome(g, 91, b, <<92>>, TRUE)
    \/ \E gf \in {None} \cup {Some(g) : g \in ReturnedGroups} :
          FetchMessages(91, gf, TRUE, TRUE)

SpecRoundTrip == InitProduction /\ [][NextRoundTrip]_vars

\* the four operations that carry a payload, with empty and non-empty
\* payloads, under both settings of skip_validation
NextPayloads ==
    \/ \E st \in Payloads :
          /\ groups = <<>> \/ st = EmptyBytes
          /\ CreateGroupBegin(91, st, TRUE)
    \/ \E p \in pending : p.op = "CreateGroup" /\ CreateGroupFinish(p, TRUE)
    \/ \E g \in ReturnedGroups, b \in Payloads :
          StoreProposal(g, 91, b, "add", TRUE)
    \/ \E g \in ReturnedGroups, b \in Payloads :
          StoreCommitBegin(g, 91, b, 1, TRUE)
    \/ \E p \in pending : p.op = "StoreCommit" /\ StoreCommitFinish(p, TRUE)
    \/ \E g \in ReturnedGroups, b \in Payloads :
          StoreWelcome(g, 91, b, <<92>>, TRUE)

SpecPayloads == Init /\ [][NextPayloads]_vars

\* clients: registration, lookups of registered, unknown and malformed ids
\* and listings, against a store whose queries succeed or fail in any of
\* the ways sqlx reports
NextClients ==
    \/ Tick
    \/ RegisterClient(CHOOSE u \in UserUuids : TRUE, "alice-1", "phone", TRUE)
    \/ \E c \in ClientIdInputs, db \in {"ok"} \cup SqlxErrors :
          GetClientBegin(c, db)
    \/ \E p \in pending, update_ok \in BOOLEAN :
          p.op = "GetClient" /\ GetClientFinish(p, update_ok)
    \/ \E u \in UserUuids, db \in {"ok"} \cup SqlxErrors : ListClients(u, db)

SpecClients == InitProduction /\ [][NextClients]_vars

\* marking: proposals stored in one group, then marked read in lists that
\* hold stored ids, an id no message carries, both or nothing
NextMark ==
    \/ /\ groups = <<>>
       /\ CreateGroupBegin(91, <<9>>, TRUE)
    \/ \E p \in pending : p.op = "CreateGroup" /\ CreateGroupFinish(p, TRUE)
    \/ \E g \in ReturnedGroups, b \in RoundTripPayloads :
          StoreProposal(g, 91, b, "add", TRUE)
    \/ \E ids \in SUBSET (Ids(messages) \cup {UnknownUuid}) :
          MarkMessagesRead(ids, TRUE)
    \/ \E ir \in BOOLEAN : FetchMessages(91, None, ir, TRUE)

SpecMark == InitProduction /\ [][NextMark]_vars

\* every operation that reaches the store, with well-formed identifiers and a
\* store that answers: a client registers, publishes a key package and has
\* it consumed; then one group is created and its members come and go while
\* artifacts are stored, marked read and fetched
NextLifecycle ==
    \/ /\ clients = <<>>
       /\ RegisterClient(CHOOSE u \in UserUuids : TRUE, "alice-1", "phone", TRUE)
    \/ \E c \in Ids(clients) : groups = <<>> /\ GetClientBegin(c, "ok")
    \/ \E p \in pending : p.op = "GetClient" /\ GetClientFinish(p, TRUE)
    \/ \E u \in UserUuids : groups = <<>> /\ ListClients(u, "ok")
    \/ \E c \in Ids(clients), g \in GeneratedKeyPackages :
          /\ key_packages = <<>>
          /\ PublishKeyPackage(c, <<8>>, g, TRUE)
    \/ \E k \in Ids(key_packages) : groups = <<>> /\ GetKeyPackage(k, TRUE)
    \/ \E c \in Ids(clients) : groups = <<>> /\ ListKeyPackages(c, TRUE)
    \/ \E k \in Ids(key_packages) : groups = <<>> /\ MarkKeyPackageUsed(k, TRUE)
    \/ /\ groups = <<>>
       /\ pending = {}
       /\ \E k \in Ids(key_packages) : key_packages[k].used
       /\ CreateGroupBegin(91, <<9>>, TRUE)
    \/ \E p \in pending : p.op = "CreateGroup" /\ CreateGroupFinish(p, TRUE)
    \/ \E g \in ReturnedGroups : GetGroup(g, TRUE)
    \/ \E c \in ExternalClients : ListGroups(c, TRUE)
    \/ \E g \in ReturnedGroups :
          /\ Len(memberships) <= 1
          /\ AddMember(g, 92, "member", TRUE)
    \/ \E m \in Ids(memberships) : RemoveMember(m, TRUE)
    \/ \E g \in ReturnedGroups : ListMemberships(g, TRUE)
    \/ \E g \in ReturnedGroups :
          Len(messages) <= 1 /\ StoreProposal(g, 91, <<9>>, "add", TRUE)
    \/ \E g \in ReturnedGroups, e \in {1, MaxEpoch} :
          /\ Len(messages) <= 1
          /\ pending = {}
          /\ StoreCommitBegin(g, 91, <<9>>, e, TRUE)
    \/ \E p \in pending : p.op = "StoreCommit" /\ StoreCommitFinish(p, TRUE)
    \/ \E g \in ReturnedGroups :
          Len(messages) <= 1 /\ StoreWelcome(g, 91, <<9>>, <<92>>, TRUE)
    \/ \E m \in Ids(messages) : MarkMessagesRead({m}, TRUE)
    \/ \E c \in ExternalClients, ir \in BOOLEAN : FetchMessages(c, None, ir, TRUE)

SpecLifecycle == InitProduction /\ [][NextLifecycle]_vars

\* recipient lists a welcome may name: none, one, two in either order, and
\* lists holding an entry that is not a UUID
RecipientLists ==
    {<<>>, <<92>>, <<91, 92>>, <<92, 91>>, <<Malformed>>, <<92, Malformed>>}

\* welcomes sent into one group by its creator, and fetched by the creator
\* and by a client that holds no membership
NextWelcome ==
    \/ /\ groups = <<>>
       /\ CreateGroupBegin(91, <<9>>, TRUE)
    \/ \E p \in pending : p.op = "CreateGroup" /\ CreateGroupFinish(p, TRUE)
    \/ \E g \in ReturnedGroups, rs \in RecipientLists :
          StoreWelcome(g, 91, <<9>>, rs, TRUE)
    \/ \E c \in ExternalClients, gf \in {None} \cup {Some(g) : g \in ReturnedGroups} :
          FetchMessages(c, gf, TRUE, TRUE)

SpecWelcome == Init /\ [][NextWelcome]_vars

\* the read operations, repeated over a store that clients, a key package,
\* one group and one proposal are written into while the clock advances
NextReads ==
    \/ groups = <<>> /\ Tick
    \/ /\ key_packages = <<>>
       /\ RegisterClient(CHOOSE u \in UserUuids : TRUE, "alice-1", "phone", TRUE)
    \/ \E c \in Ids(clients) : groups = <<>> /\ GetClientBegin(c, "ok")
    \/ \E p \in pending, update_ok \in BOOLEAN :
          p.op = "GetClient" /\ GetClientFinish(p, update_ok)
    \/ \E u \in UserUuids : ListClients(u, "ok")
    \/ \E c \in Ids(clients), g \in GeneratedKeyPackages :
          /\ key_packages = <<>>
          /\ pending = {}
          /\ PublishKeyPackage(c, <<8>>, g, TRUE)
    \/ \E k \in Ids(key_packages) : GetKeyPackage(k, TRUE)
    \/ \E c \in Ids(clients) : ListKeyPackages(c, TRUE)
    \/ /\ groups = <<>>
       /\ pending = {}
       /\ key_packages # <<>>
       /\ CreateGroupBegin(91, <<9>>, TRUE)
    \/ \E p \in pending : p.op = "CreateGroup" /\ CreateGroupFinish(p, TRUE)
    \/ \E g \in ReturnedGroups : GetGroup(g, TRUE)
    \/ ListGroups(91, TRUE)
    \/ \E g \in ReturnedGroups : ListMemberships(g, TRUE)
    \/ \E g \in ReturnedGroups :
          messages = <<>> /\ StoreProposal(g, 91, <<9>>, "add", TRUE)
    \/ \E ir \in BOOLEAN : FetchMessages(91, None, ir, TRUE)

SpecReads == InitProduction /\ [][NextReads]_vars

\* one group with two members, its creator and a client added to it:
\* proposals and welcomes naming both are stored, marked read and fetched
\* by either member
NextShared ==
    \/ /\ groups = <<>>
       /\ CreateGroupBegin(91, <<9>>, TRUE)
    \/ \E p \in pending : p.op = "CreateGroup" /\ CreateGroupFinish(p, TRUE)
    \/ \E g \in ReturnedGroups :
          /\ Len(memberships) = 1
          /\ messages = <<>>
          /\ AddMember(g, 92, "member", TRUE)
    \/ \E g \in ReturnedGroups :
          Len(memberships) = 2 /\ StoreProposal(g, 91, <<9>>, "add", TRUE)
    \/ \E g \in ReturnedGroups :
          Len(memberships) = 2 /\ StoreWelcome(g, 91, <<9>>, <<91, 92>>, TRUE)
    \/ \E ids \in SUBSET (Ids(messages) \cup {UnknownUuid}) :
          MarkMessagesRead(ids, TRUE)
    \/ \E c \in ExternalClients, ir \in BOOLEAN : FetchMessages(c, None, ir, TRUE)

SpecShared == InitProduction /\ [][NextShared]_vars

\* one group whose creator and one more client are added again and removed
\* at will; the group's messages and the clients' groups are listed
NextDuplicates ==
    \/ /\ groups = <<>>
       /\ CreateGroupBegin(91, <<9>>, TRUE)
    \/ \E p \in pending : p.op = "CreateGroup" /\ CreateGroupFinish(p, TRUE)
    \/ \E g \in ReturnedGroups, c \in ExternalClients :
          AddMember(g, c, "member", TRUE)
    \/ \E m \in Ids(memberships) : RemoveMember(m, TRUE)
    \/ \E g \in ReturnedGroups :
          messages = <<>> /\ StoreProposal(g, 91, <<9>>, "add", TRUE)
    \/ \E c \in ExternalClients : ListGroups(c, TRUE)
    \/ \E c \in ExternalClients, gf \in {None} \cup {Some(g) : g \in ReturnedGroups} :
          FetchMessages(c, gf, TRUE, TRUE)

SpecDuplicates == InitProduction /\ [][NextDuplicates]_vars

\* members are added and artifacts stored under the id of the one group
\* created and under a well-formed id that no group carries
NextIntegrity ==
    \/ /\ groups = <<>>
       /\ CreateGroupBegin(91, <<9>>, TRUE)
    \/ \E p \in pending : p.op = "CreateGroup" /\ CreateGroupFinish(p, TRUE)
    \/ \E g \in ReturnedGroups \cup {UnknownUuid} : AddMember(g, 92, "member", TRUE)
    \/ \E g \in ReturnedGroups \cup {UnknownUuid} :
          StoreProposal(g, 91, <<9>>, "add", TRUE)
    \/ \E g \in ReturnedGroups \cup {UnknownUuid} :
          pending = {} /\ StoreCommitBegin(g, 91, <<9>>, 1, TRUE)
    \/ \E p \in pending : p.op = "StoreCommit" /\ StoreCommitFinish(p, TRUE)
    \/ \E g \in ReturnedGroups \cup {UnknownUuid} :
          StoreWelcome(g, 91, <<9>>, <<92>>, TRUE)
    \/ \E g \in ReturnedGroups \cup {UnknownUuid} : GetGroup(g, TRUE)

SpecIntegrity == InitProduction /\ [][NextIntegrity]_vars

\* every operation modelled
Next ==
    \/ Tick
    \/ NextKeys
    \/ NextConsume
    \/ NextMembers
    \/ NextCommit
    \/ NextFetch
    \/ NextRead
    \/ NextOrder
    \/ NextCreate
    \/ NextRoster
    \/ NextMessages
    \/ NextCommitResult
    \/ NextMalformed
    \/ NextPublish
    \/ NextRoundTrip
    \/ NextPayloads
    \/ NextClients
    \/ NextMark
    \/ NextLifecycle
    \/ NextWelcome
    \/ NextReads
    \/ NextShared
    \/ NextDuplicates
    \/ NextIntegrity
    \/ \E g \in GroupIdInputs, db_ok \in BOOLEAN : ListMemberships(g, db_ok)

Spec == Init /\ [][Next]_vars

\* =============================================================== commits
\* C1: a group's epoch only ever grows, and a StoreCommit whose target epoch
\* is not above the group's current epoch is rejected and leaves the epoch
\* as it was.
C1_EpochStrictlyIncreasing ==
    [][ /\ \A g \in Ids(groups) :
              groups'[g].epoch # groups[g].epoch =>
                  groups'[g].epoch > groups[g].epoch
        /\ \A p \in pending \ pending' :
              (/\ p.op = "StoreCommit"
               /\ last_call' # last_call
               /\ p.group_id \in Ids(groups)
               /\ AsI64(p.epoch) <= groups[p.group_id].epoch)
              => /\ last_call'.status # "Ok"
                 /\ groups'[p.group_id].epoch = groups[p.group_id].epoch ]_vars

\* C2: whenever a group's epoch changes it grows by exactly 1, so a
\* StoreCommit whose target is not current epoch + 1 does not change it.
C2_EpochStepsByOne ==
    [][ \A g \in Ids(groups) :
            groups'[g].epoch # groups[g].epoch =>
                groups'[g].epoch = groups[g].epoch + 1 ]_vars

\* C3: outside a running StoreCommit, a commit message is stored exactly
\* when the call that stored it also advanced its group's epoch.
C3_CommitAtomic ==
    /\ \A m \in Ids(messages) :
          (/\ messages[m].message_type = "commit"
           /\ ~\E p \in pending : p.op = "StoreCommit" /\ p.message_id = m)
          => m \in epoch_applied
    /\ \A m \in epoch_applied :
          m \in Ids(messages) /\ messages[m].message_type = "commit"

\* C4: a StoreCommit that was in flight from the same epoch as a commit
\* accepted meanwhile is not accepted itself.
C4_ConcurrentCommitRejected ==
    (/\ last_call.op = "StoreCommit"
     /\ last_call.pre # None
     /\ last_call.pre.raced)
    => last_call.status # "Ok"

\* ======================================================== key packages
\* C5: a key package is stored with used = FALSE, and once used is TRUE it
\* is TRUE in every later state, whatever operation runs.
C5_UsedOneWay ==
    [][ /\ \A k \in Ids(key_packages) :
              /\ k \in Ids(key_packages')
              /\ key_packages[k].used => key_packages'[k].used
        /\ \A k \in Ids(key_packages') \ Ids(key_packages) :
              key_packages'[k].used = FALSE ]_vars

\* mark_key_package_used has answered Ok for a package that is used now,
\* while another package is still unused
C5_Witness ==
    /\ last_call.op = "mark_key_package_used"
    /\ last_call.status = "Ok"
    /\ last_call.arg \in Ids(key_packages)
    /\ key_packages[last_call.arg].used
    /\ \E k \in Ids(key_packages) : ~key_packages[k].used

\* C6: of the consumers that fetched a package and then marked it used, at
\* most one takes the package for fresh.
C6_AtMostOneFresh ==
    \A k \in Ids(key_packages) :
        Cardinality({c \in 1..NumConsumers :
                        /\ consumers[c].pc = "fresh"
                        /\ consumers[c].key_package_id = k}) <= 1

\* C7: ListKeyPackages(client) answers with exactly the unused packages of
\* that client.
C7_ListOnlyUnused ==
    (last_call.op = "ListKeyPackages" /\ last_call.status = "Ok") =>
        /\ {last_call.result[i].id : i \in DOMAIN last_call.result}
             = {k \in Ids(key_packages) :
                   /\ key_packages[k].client_id = last_call.arg
                   /\ ~key_packages[k].used}
        /\ \A i \in DOMAIN last_call.result :
              /\ last_call.result[i].used = FALSE
              /\ last_call.result[i].client_id = last_call.arg
              /\ last_call.result[i] = key_packages[last_call.result[i].id]

\* a listing that leaves out a used package of the client and a package of
\* another client, and returns the remaining one
C7_Witness ==
    /\ last_call.op = "ListKeyPackages"
    /\ last_call.status = "Ok"
    /\ Len(last_call.result) = 1
    /\ \E k \in Ids(key_packages) :
          key_packages[k].client_id = last_call.arg /\ key_packages[k].used
    /\ \E k \in Ids(key_packages) : key_packages[k].client_id # last_call.arg

\* C8: GetKeyPackage never hands a package that is marked used to a peer,
\* and never hands the same package to two peers.
C8_NeverReissued ==
    /\ \A c \in 1..NumConsumers : consumers[c].pc # "saw_used"
    /\ \A c, d \in 1..NumConsumers :
          (/\ c # d
           /\ consumers[c].pc \in {"fetched", "fresh"}
           /\ consumers[d].pc \in {"fetched", "fresh"})
          => consumers[c].key_package_id # consumers[d].key_package_id



\* ========================================================== memberships
\* C9: a membership whose removed_at is set keeps it set through every later
\* operation; RemoveMember on an already removed membership is accepted and
\* leaves it removed.
C9_RemovedStaysRemoved ==
    [][ /\ \A m \in Ids(memberships) :
              memberships[m].removed_at # None =>
                  /\ m \in Ids(memberships')
                  /\ memberships'[m].removed_at # None
        /\ (/\ last_call'.op = "RemoveMember"
            /\ last_call'.arg \in Ids(memberships)
            /\ memberships[last_call'.arg].removed_at # None)
           => /\ last_call'.status = "Ok"
              /\ memberships'[last_call'.arg].removed_at # None ]_vars

\* RemoveMember has answered Ok for a membership that was removed before
C9_Witness ==
    /\ last_call.op = "RemoveMember"
    /\ last_call.status = "Ok"
    /\ last_call.pre # None
    /\ Unwrap(last_call.pre) # None
    /\ memberships[last_call.arg].removed_at # None

\* C10: ListGroups(client) answers with exactly the active groups in which
\* the client holds a membership that is not removed.
C10_ListGroupsActiveOnly ==
    (last_call.op = "ListGroups" /\ last_call.status = "Ok") =>
        {last_call.result[i].id : i \in DOMAIN last_call.result}
            = {g \in Ids(groups) :
                  /\ groups[g].is_active
                  /\ \E m \in Ids(memberships) :
                        /\ memberships[m].group_id = g
                        /\ memberships[m].client_id = last_call.arg
                        /\ memberships[m].removed_at = None}

\* a listing that leaves out a group whose only membership of the client is
\* removed and returns a group in which the client has a removed and an
\* active membership
C10_Witness ==
    /\ last_call.op = "ListGroups"
    /\ last_call.status = "Ok"
    /\ \E g \in Ids(groups) :
          /\ g \notin {last_call.result[i].id : i \in DOMAIN last_call.result}
          /\ \E m \in Ids(memberships) :
                /\ memberships[m].group_id = g
                /\ memberships[m].client_id = last_call.arg
                /\ memberships[m].removed_at # None
    /\ \E g \in Ids(groups) :
          /\ g \in {last_call.result[i].id : i \in DOMAIN last_call.result}
          /\ \E m, n \in Ids(memberships) :
                /\ memberships[m].group_id = g
                /\ memberships[n].group_id = g
                /\ memberships[m].client_id = last_call.arg
                /\ memberships[n].client_id = last_call.arg
                /\ memberships[m].removed_at # None
                /\ memberships[n].removed_at = None

\* ============================================================== delivery
\* C11: FetchMessages(client) returns no message of a group in which the
\* client's membership is removed and the client has no active membership.
C11_RemovedMemberSeesNothing ==
    (/\ last_call.op = "FetchMessages"
     /\ last_call.status = "Ok"
     /\ last_call.arg.group_id = None) =>
        \A i \in DOMAIN last_call.result :
            ~(/\ \E m \in Ids(memberships) :
                    /\ memberships[m].group_id = last_call.result[i].group_id
                    /\ memberships[m].client_id = last_call.arg.client_id
                    /\ memberships[m].removed_at # None
              /\ ~\E m \in Ids(memberships) :
                    /\ memberships[m].group_id = last_call.result[i].group_id
                    /\ memberships[m].client_id = last_call.arg.client_id
                    /\ memberships[m].removed_at = None)

\* C12: FetchMessages(client) without a group filter returns exactly the
\* messages, subject to the read filter, of the groups in which the client
\* holds a membership that is not removed.
C12_UnfilteredScope ==
    (/\ last_call.op = "FetchMessages"
     /\ last_call.status = "Ok"
     /\ last_call.arg.group_id = None) =>
        {last_call.result[i].id : i \in DOMAIN last_call.result}
            = {x \in Ids(messages) :
                  /\ last_call.arg.include_read \/ ~messages[x].read
                  /\ \E m \in Ids(memberships) :
                        /\ memberships[m].group_id = messages[x].group_id
                        /\ memberships[m].client_id = last_call.arg.client_id
                        /\ memberships[m].removed_at = None}

\* C13: FetchMessages(client, group) with a group filter returns the
\* messages of that group, subject to the read filter, whether or not the
\* client has a membership row in the group.
C13_GroupFilterIgnoresMembership ==
    (/\ last_call.op = "FetchMessages"
     /\ last_call.status = "Ok"
     /\ last_call.arg.group_id # None) =>
        {last_call.result[i].id : i \in DOMAIN last_call.result}
            = {x \in Ids(messages) :
                  /\ messages[x].group_id = Unwrap(last_call.arg.group_id)
                  /\ last_call.arg.include_read \/ ~messages[x].read}

\* C14: FetchMessages with include_read = FALSE answers with exactly the
\* unread messages in scope, with include_read = TRUE with all messages in
\* scope, read or not.  In scope are the messages of the groups in which
\* the client has a membership row, narrowed to the filter group if one is
\* given.
C14_ReadFilter ==
    (last_call.op = "FetchMessages" /\ last_call.status = "Ok") =>
        /\ {last_call.result[i].id : i \in DOMAIN last_call.result}
             = {x \in Ids(messages) :
                   /\ \E m \in Ids(memberships) :
                         /\ memberships[m].group_id = messages[x].group_id
                         /\ memberships[m].client_id = last_call.arg.client_id
                   /\ last_call.arg.group_id # None =>
                         messages[x].group_id = Unwrap(last_call.arg.group_id)
                   /\ last_call.arg.include_read \/ ~messages[x].read}
        /\ ~last_call.arg.include_read =>
              \A i \in DOMAIN last_call.result : last_call.result[i].read = FALSE

\* of two messages of a group, one marked read, a fetch with
\* include_read = FALSE has returned exactly the unread one
C14_Witness ==
    /\ last_call.op = "FetchMessages"
    /\ last_call.status = "Ok"
    /\ last_call.arg.include_read = FALSE
    /\ last_call.arg.group_id # None
    /\ Len(last_call.result) = 1
    /\ \E x \in Ids(messages) :
          /\ messages[x].group_id = Unwrap(last_call.arg.group_id)
          /\ messages[x].read
          /\ x # last_call.result[1].id

\* C15 as stated: of any two returned messages the one stored earlier comes
\* first (message ids are handed out in the order of storing).
C15_StoredEarlierFirst ==
    (last_call.op = "FetchMessages" /\ last_call.status = "Ok") =>
        \A i, j \in DOMAIN last_call.result :
            i < j => last_call.result[i].id <= last_call.result[j].id

\* C15 (amended): FetchMessages answers in non-decreasing created_at order;
\* of any two returned messages the one with the smaller created_at comes
\* first, messages with equal created_at come in either order.
C15_OldestFirst ==
    (last_call.op = "FetchMessages" /\ last_call.status = "Ok") =>
        \A i, j \in DOMAIN last_call.result :
            last_call.result[i].created_at < last_call.result[j].created_at
                => i < j

\* a fetch has returned two messages stored at different times
C15_Witness ==
    /\ last_call.op = "FetchMessages"
    /\ last_call.status = "Ok"
    /\ Len(last_call.result) = 2
    /\ last_call.result[1].created_at < last_call.result[2].created_at

\* ================================================================ groups
\* C16: right after a successful CreateGroup(creator, state), GetGroup on
\* the returned id answers with epoch 0, is_active and the submitted state,
\* and ListMemberships on it answers with exactly one membership: role
\* admin, client the creator, removed_at unset.
C16_CreateGroupResult ==
    [][ (last_call.op = "CreateGroup" /\ last_call.status = "Ok") =>
          /\ (last_call'.op = "GetGroup" /\ last_call'.arg = last_call.result) =>
                /\ last_call'.status = "Ok"
                /\ last_call'.result.id = last_call.result
                /\ last_call'.result.epoch = 0
                /\ last_call'.result.is_active = TRUE
                /\ last_call'.result.state = last_call.arg[2]
          /\ (last_call'.op = "ListMemberships"
                  /\ last_call'.arg = last_call.result) =>
                /\ last_call'.status = "Ok"
                /\ Len(last_call'.result) = 1
                /\ last_call'.result[1].group_id = last_call.result
                /\ last_call'.result[1].role = "admin"
                /\ last_call'.result[1].client_id = last_call.arg[1]
                /\ last_call'.result[1].removed_at = None ]_vars

\* the second of two groups has been created and its roster listed: one
\* admin membership, of its creator
C16_Witness ==
    /\ last_call.op = "ListMemberships"
    /\ last_call.status = "Ok"
    /\ last_call.arg = 2
    /\ Len(groups) = 2
    /\ Len(memberships) = 2
    /\ Len(last_call.result) = 1
    /\ last_call.result[1].role = "admin"
    /\ last_call.result[1].client_id = groups[2].creator_id
    /\ groups[2].epoch = 0

\* C17: every group whose CreateGroup is no longer running has an admin
\* membership for its creator, also when the membership insert failed or
\* the request was abandoned between the two writes.
C17_GroupHasCreatorMembership ==
    \A g \in ReturnedGroups :
        \E m \in Ids(memberships) :
            /\ memberships[m].group_id = g
            /\ memberships[m].client_id = groups[g].creator_id
            /\ memberships[m].role = "admin"

\* C18: ListMemberships(group) answers with all memberships of the group,
\* removed ones included, and with no membership of another group.
C18_ListIncludesRemoved ==
    (last_call.op = "ListMemberships" /\ last_call.status = "Ok") =>
        {last_call.result[i].id : i \in DOMAIN last_call.result}
            = {m \in Ids(memberships) : memberships[m].group_id = last_call.arg}

\* C19: RemoveMember with a well-formed id that no membership has answers
\* NotFound; with the id of a membership it answers Ok and the membership
\* has removed_at set.
C19_RemoveUnknownNotFound ==
    (last_call.op = "RemoveMember" /\ last_call.arg # Malformed) =>
        IF last_call.arg \in Ids(memberships)
        THEN /\ last_call.status = "Ok"
             /\ memberships[last_call.arg].removed_at # None
        ELSE last_call.status = "NotFound"

\* ============================================================== messages
\* C20: every stored message has exactly one of the proposal, commit and
\* welcome payloads populated, the one its message_type names; an epoch is
\* set only on commits, a proposal type only on proposals, a recipient list
\* only on welcomes.
C20_MessageVariant ==
    \A x \in Ids(messages) :
        /\ messages[x].message_type \in {"proposal", "commit", "welcome"}
        /\ messages[x].proposal # None <=> messages[x].message_type = "proposal"
        /\ messages[x].commit # None <=> messages[x].message_type = "commit"
        /\ messages[x].welcome # None <=> messages[x].message_type = "welcome"
        /\ messages[x].epoch # None => messages[x].message_type = "commit"
        /\ messages[x].proposal_type # None =>
              messages[x].message_type = "proposal"
        /\ messages[x].recipients # None => messages[x].message_type = "welcome"

\* a proposal with an empty payload (validation skipped) and a welcome with
\* no recipients are stored
C20_Witness ==
    /\ \E x \in Ids(messages) :
          /\ messages[x].message_type = "proposal"
          /\ messages[x].proposal = Some(EmptyBytes)
    /\ \E x \in Ids(messages) :
          /\ messages[x].message_type = "welcome"
          /\ messages[x].recipients = Some(<<>>)

\* C21: after a successful StoreCommit(group, sender, bytes, e) on a stored
\* group the message it stored is a commit carrying epoch e, and a GetGroup
\* that follows directly answers with epoch e.
C21_CommitResult ==
    [][ (/\ last_call.op = "StoreCommit"
         /\ last_call.status = "Ok"
         /\ last_call.arg[1] \in Ids(groups)) =>
          /\ messages[last_call.result].message_type = "commit"
          /\ messages[last_call.result].commit = Some(last_call.arg[4])
          /\ messages[last_call.result].epoch # None
          /\ AsU64(Unwrap(messages[last_call.result].epoch)) = last_call.arg[3]
          /\ (last_call'.op = "GetGroup" /\ last_call'.arg = last_call.arg[1]) =>
                /\ last_call'.status = "Ok"
                /\ last_call'.result.epoch = last_call.arg[3] ]_vars

\* GetGroup has answered with the epoch of the commit stored last, a target
\* more than one above the epoch the group was created with
C21_Witness ==
    /\ last_call.op = "GetGroup"
    /\ last_call.status = "Ok"
    /\ last_call.result.epoch = MaxEpoch
    /\ Len(messages) > 0
    /\ messages[Len(messages)].message_type = "commit"
    /\ messages[Len(messages)].epoch = Some(MaxEpoch)
    /\ Len(messages) \in epoch_applied

\* C22: a call whose request carries a malformed identifier (client, user,
\* group, sender, key package or membership id, or a non-empty malformed
\* group filter of FetchMessages) answers InvalidArgument whether the store
\* is up or down, and leaves every table and every handler in flight as
\* they were
C22_MalformedIdRejected ==
    [][ LET lc == last_call'
            malformed ==
               CASE lc.op \in {"RegisterClient", "GetClient", "ListClients",
                               "GetKeyPackage", "ListKeyPackages", "GetGroup",
                               "ListGroups", "RemoveMember", "ListMemberships"}
                       -> lc.arg = Malformed
                 [] lc.op \in {"PublishKeyPackage", "CreateGroup"}
                       -> lc.arg[1] = Malformed
                 [] lc.op \in {"AddMember", "StoreProposal", "StoreCommit",
                               "StoreWelcome"}
                       -> lc.arg[1] = Malformed \/ lc.arg[2] = Malformed
                 [] lc.op = "FetchMessages"
                       -> \/ lc.arg.client_id = Malformed
                          \/ lc.arg.group_id = Some(Malformed)
                 [] OTHER -> FALSE
        IN  (lc # last_call /\ malformed) =>
               /\ lc.status = "InvalidArgument"
               /\ store' = store
               /\ pending' = pending ]_vars

\* a fetch with a well-formed client and a malformed group filter was turned
\* down while the store held a message
C22_Witness ==
    /\ last_call.op = "FetchMessages"
    /\ last_call.arg.client_id # Malformed
    /\ last_call.arg.group_id = Some(Malformed)
    /\ last_call.status = "InvalidArgument"
    /\ messages # <<>>

\* C23: a publish by a registered client whose submitted bytes the
\* key-package validator rejects answers InvalidArgument and stores nothing
C23_PublishValidates ==
    [][ (/\ last_call' # last_call
         /\ last_call'.op = "PublishKeyPackage"
         /\ last_call'.arg[1] \in Ids(clients)
         /\ last_call'.pre = Some(TRUE)
         /\ ~validate_key_package(last_call'.arg[2])) =>
           /\ last_call'.status = "InvalidArgument"
           /\ key_packages' = key_packages ]_vars

\* C24: the package a successful publish stored holds the bytes the request
\* submitted, is unused and belongs to the publishing client
C24_PublishStoresSubmitted ==
    (last_call.op = "PublishKeyPackage" /\ last_call.status = "Ok") =>
        /\ key_packages[last_call.result].data = last_call.arg[2]
        /\ key_packages[last_call.result].used = FALSE
        /\ key_packages[last_call.result].client_id = last_call.arg[1]

C26_RoundTrip ==
    [][ /\ (/\ last_call.op \in {"StoreProposal", "StoreCommit", "StoreWelcome"}
            /\ last_call.status = "Ok"
            /\ last_call'.op = "FetchMessages"
            /\ last_call'.status = "Ok"
            /\ last_call'.arg.include_read
            /\ \E i \in Ids(memberships) :
                  /\ memberships[i].client_id = last_call'.arg.client_id
                  /\ memberships[i].group_id = last_call.arg[1]) =>
              \E i \in DOMAIN last_call'.result :
                  /\ last_call'.result[i].id = last_call.result
                  /\ last_call'.result[i].content =
                       Some(CASE last_call.op = "StoreProposal" ->
                                   <<"Proposal", last_call.arg[3]>>
                              [] last_call.op = "StoreCommit" ->
                                   <<"Commit", last_call.arg[4]>>
                              [] last_call.op = "StoreWelcome" ->
                                   <<"Welcome", last_call.arg[4]>>)
        /\ (/\ last_call.op = "CreateGroup"
            /\ last_call.status = "Ok"
            /\ last_call'.op = "GetGroup"
            /\ last_call'.arg = last_call.result) =>
              /\ last_call'.status = "Ok"
              /\ last_call'.result.state = last_call.arg[2] ]_vars

\* a welcome of two bytes came back from a fetch next to an earlier message
C26_Witness ==
    /\ last_call.op = "FetchMessages"
    /\ last_call.status = "Ok"
    /\ Len(last_call.result) = 2
    /\ \E i \in DOMAIN last_call.result :
          /\ last_call.result[i].id = Len(messages)
          /\ last_call.result[i].content = Some(<<"Welcome", <<1, 2>>>>)

\* C27: whatever skip_validation is, StoreProposal, StoreCommit,
\* StoreWelcome and CreateGroup called with an empty payload answer
\* InvalidArgument and leave groups, memberships and messages as they were
C27_EmptyPayloadRejected ==
    [][ LET lc == last_call'
            payload == CASE lc.op = "CreateGroup" -> lc.arg[2]
                         [] lc.op = "StoreProposal" -> lc.arg[3]
                         [] lc.op \in {"StoreCommit", "StoreWelcome"} -> lc.arg[4]
                         [] OTHER -> <<0>>
        IN  (lc # last_call /\ payload = EmptyBytes) =>
               /\ lc.status = "InvalidArgument"
               /\ groups' = groups
               /\ memberships' = memberships
               /\ messages' = messages ]_vars

\* C28: GetClient for a well-formed id no client carries, the store
\* answering, fails NotFound and changes nothing; a GetClient that found its
\* client answers Ok with that client's record whether the last_seen update
\* succeeded or failed, sets the client's last_seen to the current time when
\* the update succeeded, and changes nothing else
C28_GetClient ==
    [][ /\ (/\ last_call' # last_call
            /\ last_call'.op = "GetClient"
            /\ last_call'.arg \notin Ids(clients) \cup {Malformed}
            /\ last_call'.pre = Some("ok")) =>
              /\ last_call'.status = "NotFound"
              /\ store' = store
              /\ pending' = pending
        /\ \A p \in pending :
             (p.op = "GetClient" /\ pending' = pending \ {p}) =>
               LET c == p.client_id IN
               /\ last_call'.op = "GetClient"
               /\ last_call'.arg = c
               /\ last_call'.status = "Ok"
               /\ last_call'.result.id = c
               /\ last_call'.result.user_id = clients[c].user_id
               /\ last_call'.result.credential = clients[c].credential
               /\ last_call'.result.device_name = clients[c].device_name
               /\ last_call'.result.created_at = clients[c].created_at
               /\ last_call'.pre = Some("updated") =>
                     clients' = [clients EXCEPT ![c].last_seen = now]
               /\ last_call'.pre # Some("updated") => clients' = clients
               /\ UNCHANGED <<key_packages, groups, memberships, messages>> ]_vars

\* a lookup answered with the record as read and moved the client's
\* last_seen forward to the time of the lookup
C28_Witness ==
    /\ last_call.op = "GetClient"
    /\ last_call.status = "Ok"
    /\ last_call.pre = Some("updated")
    /\ last_call.result.last_seen = 1
    /\ clients[last_call.arg].last_seen = MaxTime
    /\ clients[last_call.arg].created_at = 1

\* C29: an operation whose store query could not get a connection in time
\* or lost its connection fails with kind Unavailable
C29_UnreachableIsUnavailable ==
    (last_call.pre \in {Some("PoolTimedOut"), Some("Io")}) =>
        last_call.status = "Unavailable"

\* C30: mark_messages_read on a list of ids, the store answering, succeeds
\* whether or not every id names a stored message; afterwards every stored
\* message whose id is in the list is read and otherwise as before, and
\* every message whose id is not in the list is unchanged
C30_MarkMessagesRead ==
    [][ (last_call' # last_call /\ last_call'.op = "mark_messages_read") =>
          /\ last_call'.status = "Ok"
          /\ DOMAIN messages' = DOMAIN messages
          /\ \A i \in DOMAIN messages :
                IF i \in last_call'.arg
                THEN /\ messages'[i].read = TRUE
                     /\ [messages'[i] EXCEPT !.read = messages[i].read] = messages[i]
                ELSE messages'[i] = messages[i] ]_vars

\* a list holding the first message's id and an unknown id was marked: the
\* call succeeded, the first message is read, the second is still unread
C30_Witness ==
    /\ last_call.op = "mark_messages_read"
    /\ last_call.arg = {1, UnknownUuid}
    /\ last_call.status = "Ok"
    /\ Len(messages) = 2
    /\ messages[1].read = TRUE
    /\ messages[2].read = FALSE

\* C31: in every step, each id carried by a stored client, key package,
\* group, membership or message before the step is carried by a row of the
\* same table after it
C31_NoHardDelete ==
    [][ /\ {clients[i].id : i \in DOMAIN clients}
              \subseteq {clients'[i].id : i \in DOMAIN clients'}
        /\ {key_packages[i].id : i \in DOMAIN key_packages}
              \subseteq {key_packages'[i].id : i \in DOMAIN key_packages'}
        /\ {groups[i].id : i \in DOMAIN groups}
              \subseteq {groups'[i].id : i \in DOMAIN groups'}
        /\ {memberships[i].id : i \in DOMAIN memberships}
              \subseteq {memberships'[i].id : i \in DOMAIN memberships'}
        /\ {messages[i].id : i \in DOMAIN messages}
              \subseteq {messages'[i].id : i \in DOMAIN messages'} ]_vars

\* a membership was removed, and its row and every other row are still there
C31_Witness ==
    /\ last_call.op = "RemoveMember"
    /\ last_call.status = "Ok"
    /\ last_call.arg \in Ids(memberships)
    /\ memberships[last_call.arg].id = last_call.arg
    /\ memberships[last_call.arg].removed_at # None
    /\ Len(memberships) = 2
    /\ clients # <<>> /\ key_packages # <<>> /\ messages # <<>>

\* C32: a StoreWelcome with well-formed group and sender and a non-empty
\* payload, the store answering, answers InvalidArgument and leaves the
\* store as it was when an entry of its recipient list is not a UUID;
\* otherwise it answers Ok and appends exactly one welcome message whose
\* recipients are the list of the request, entry by entry
C32_WelcomeRecipients ==
    [][ (/\ last_call' # last_call
         /\ last_call'.op = "StoreWelcome"
         /\ last_call'.arg[1] # Malformed
         /\ last_call'.arg[2] # Malformed
         /\ last_call'.arg[4] # EmptyBytes) =>
           IF \E k \in DOMAIN last_call'.arg[3] : last_call'.arg[3][k] = Malformed
           THEN /\ last_call'.status = "InvalidArgument"
                /\ store' = store
           ELSE /\ last_call'.status = "Ok"
                /\ Len(messages') = Len(messages) + 1
                /\ SubSeq(messages', 1, Len(messages)) = messages
                /\ last_call'.result = Len(messages')
                /\ messages'[Len(messages')].message_type = "welcome"
                /\ messages'[Len(messages')].recipients = Some(last_call'.arg[3])
                /\ UNCHANGED <<clients, key_packages, groups, memberships>> ]_vars

\* a welcome naming 92 then 91 is stored with its recipients in that order
C32_Witness ==
    /\ last_call.op = "StoreWelcome"
    /\ last_call.status = "Ok"
    /\ last_call.arg[3] = <<92, 91>>
    /\ messages[last_call.result].recipients = Some(<<92, 91>>)
    /\ Len(messages) = 1

\* C33: in every step each stored message keeps its id, group, sender,
\* variant, payload, epoch, recipients and creation time, and its read flag
\* stays true once it is true
C33_MessageImmutable ==
    [][ \A i \in DOMAIN messages :
          /\ i \in DOMAIN messages'
          /\ [messages'[i] EXCEPT !.read = messages[i].read] = messages[i]
          /\ messages[i].read => messages'[i].read ]_vars

\* a stored commit was marked read and is otherwise as it was stored
C33_Witness ==
    /\ last_call.op = "mark_messages_read"
    /\ last_call.status = "Ok"
    /\ \E m \in last_call.arg :
          /\ m \in Ids(messages)
          /\ messages[m].read
          /\ messages[m].message_type = "commit"
          /\ messages[m].commit = Some(<<9>>)
          /\ messages[m].epoch = Some(MaxEpoch)

\* C34: a step in which a stored group's row changes is the second store
\* call of a StoreCommit for that group, and changes nothing of the row but
\* its epoch and update time; in particular StoreProposal, StoreWelcome,
\* AddMember, RemoveMember, PublishKeyPackage and every Get, List and Fetch
\* operation leave epoch, state and is_active of every group as they were
C34_EpochOnlyByCommit ==
    [][ /\ \A g \in Ids(groups) :
              /\ g \in Ids(groups')
              /\ groups'[g].state = groups[g].state
              /\ groups'[g].is_active = groups[g].is_active
              /\ groups'[g].epoch # groups[g].epoch =>
                    /\ last_call'.op = "StoreCommit"
                    /\ last_call'.arg[1] = g
                    /\ \E p \in pending \ pending' :
                          p.op = "StoreCommit" /\ p.group_id = g
        /\ (/\ last_call' # last_call
            /\ last_call'.op \in
                 {"StoreProposal", "StoreWelcome", "AddMember", "RemoveMember",
                  "PublishKeyPackage", "GetClient", "ListClients",
                  "GetKeyPackage", "ListKeyPackages", "GetGroup", "ListGroups",
                  "ListMemberships", "FetchMessages"}) =>
              \A g \in Ids(groups) : groups'[g] = groups[g] ]_vars

\* a proposal was stored into a group whose epoch a commit had advanced, and
\* the epoch is still the commit's
C34_Witness ==
    /\ last_call.op = "StoreProposal"
    /\ last_call.status = "Ok"
    /\ last_call.arg[1] \in Ids(groups)
    /\ groups[last_call.arg[1]].epoch = MaxEpoch
    /\ Len(messages) \notin epoch_applied
    /\ epoch_applied # {}

\* C35: a step of GetKeyPackage, ListKeyPackages, GetGroup, ListGroups,
\* ListClients, ListMemberships or FetchMessages leaves every table as it
\* was; the step in which a GetClient answers leaves every table but clients
\* as it was, every other client as it was, and of the requested client
\* every field but last_seen
C35_ReadsChangeNothing ==
    [][ /\ (/\ last_call' # last_call
            /\ last_call'.op \in
                 {"GetKeyPackage", "ListKeyPackages", "GetGroup", "ListGroups",
                  "ListClients", "ListMemberships", "FetchMessages"}) =>
              store' = store
        /\ (last_call' # last_call /\ last_call'.op = "GetClient") =>
              /\ UNCHANGED <<key_packages, groups, memberships, messages>>
              /\ DOMAIN clients' = DOMAIN clients
              /\ \A i \in DOMAIN clients :
                    /\ i # last_call'.arg => clients'[i] = clients[i]
                    /\ [clients'[i] EXCEPT !.last_seen = clients[i].last_seen]
                          = clients[i] ]_vars

\* a GetClient moved the last_seen of the first client forward while a
\* second client, a key package, a group and a message were stored
C35_Witness ==
    /\ last_call.op = "GetClient"
    /\ last_call.status = "Ok"
    /\ last_call.arg = 1
    /\ Len(clients) = 2
    /\ clients[1].last_seen > clients[1].created_at
    /\ clients[2].last_seen = clients[2].created_at
    /\ clients[2].created_at < clients[1].last_seen

\* C36: the epoch stored with every group and with every commit message is
\* not negative, and the epoch stored with the message of a successful
\* StoreCommit is the unsigned epoch the request submitted
C36_StoredEpochNonNegative ==
    /\ \A g \in Ids(groups) : groups[g].epoch >= 0
    /\ \A m \in Ids(messages) :
          messages[m].epoch # None => Unwrap(messages[m].epoch) >= 0
    /\ (last_call.op = "StoreCommit" /\ last_call.status = "Ok") =>
          Unwrap(messages[last_call.result].epoch) = last_call.arg[3]

\* C37: a successful fetch without group filter, read messages included,
\* returns to its client every stored welcome whose recipient list names
\* that client
C37_WelcomeFanOut ==
    [][ (/\ last_call' # last_call
         /\ last_call'.op = "FetchMessages"
         /\ last_call'.status = "Ok"
         /\ last_call'.arg.group_id = None
         /\ last_call'.arg.include_read) =>
           \A m \in Ids(messages) :
              (/\ messages[m].message_type = "welcome"
               /\ \E k \in DOMAIN Unwrap(messages[m].recipients) :
                     Unwrap(messages[m].recipients)[k] = last_call'.arg.client_id) =>
                 \E i \in DOMAIN last_call'.result :
                     last_call'.result[i].id = m ]_vars

\* C38 as stated: a step that marks messages read changes the result of a
\* fetch without read messages for at most one client
C38_ReadStatePerClient ==
    [][ (last_call' # last_call /\ last_call'.op = "mark_messages_read") =>
          Cardinality({c \in ExternalClients :
              {row[1] : row \in db_fetch_messages_for_client(c, None, FALSE)}'
            # {row[1] : row \in db_fetch_messages_for_client(c, None, FALSE)}})
            <= 1 ]_vars

\* C38: the read flag belongs to the message, not to a client: a step that
\* marks a list of messages read removes exactly the listed messages from
\* what a fetch without read messages returns, for every client alike, and
\* leaves what a fetch with read messages returns unchanged
C38_ReadStateShared ==
    [][ (last_call' # last_call /\ last_call'.op = "mark_messages_read") =>
          \A c \in ExternalClients :
             /\ {row[1] : row \in db_fetch_messages_for_client(c, None, FALSE)}'
                  = {row[1] : row \in db_fetch_messages_for_client(c, None, FALSE)}
                       \ last_call'.arg
             /\ {row[1] : row \in db_fetch_messages_for_client(c, None, TRUE)}'
                  = {row[1] : row \in db_fetch_messages_for_client(c, None, TRUE)} ]_vars

\* a welcome naming both members was marked read and neither member's fetch
\* without read messages returns it any more, while an unmarked message stays
C38_Witness ==
    /\ last_call.op = "mark_messages_read"
    /\ last_call.status = "Ok"
    /\ Len(messages) = 2
    /\ \E m \in last_call.arg :
          /\ m \in Ids(messages)
          /\ messages[m].message_type = "welcome"
          /\ messages[m].recipients = Some(<<91, 92>>)
          /\ messages[m].read
          /\ \A c \in ExternalClients :
                /\ m \notin {row[1] : row \in db_fetch_messages_for_client(c, None, FALSE)}
                /\ m \in {row[1] : row \in db_fetch_messages_for_client(c, None, TRUE)}
    /\ \E m \in Ids(messages) : ~messages[m].read

\* C39: no two entries of a ListGroups result are the same group, and no
\* two entries of a FetchMessages result are the same message
C39_NoDuplicateRows ==
    (/\ last_call.op \in {"ListGroups", "FetchMessages"}
     /\ last_call.status = "Ok") =>
        \A i, j \in DOMAIN last_call.result :
            i # j => last_call.result[i].id # last_call.result[j].id

\* C40: every stored membership and every stored message names a group that
\* is stored
C40_ReferentialIntegrity ==
    /\ \A m \in Ids(memberships) : memberships[m].group_id \in Ids(groups)
    /\ \A m \in Ids(messages) : messages[m].group_id \in Ids(groups)

====
